---- MODULE Spec2Model ----
(***************************************************************************)
(* HWO target scoring service (backend/app/api/hwo_scoring.py): the CSV    *)
(* column detector, the heuristic scoring engine and the CSV upload        *)
(* pipeline, as a request/response state machine.                          *)
(*                                                                         *)
(* Strings are sequences of one-character strings, so that lower(),        *)
(* strip(), replace(), the substring test and set(str) are computed the    *)
(* way Python computes them.  Floats are exact rationals [n, d] (d > 0) or *)
(* scaled integers; the places where rounding matters say so.              *)
(***************************************************************************)
EXTENDS Integers, Sequences, FiniteSets, TLC

VARIABLES
  pc,                \* "idle" | "pending" | "done": the request in flight
  op,                \* the endpoint the request in flight addresses
  headers,           \* request: the CSV header list
  detected_mapping,  \* response: canonical field -> CSV header
  confidence_scores, \* response: canonical field -> confidence
  validation,        \* response of validate-columns
  target,            \* request: the ExoplanetTarget to score
  result,            \* response: the ScoringResult
  file,              \* request: the uploaded file
  upload,            \* response of the CSV upload
  models_loaded,     \* scoring_engine.models_loaded
  memo,              \* history: an earlier detect_columns call and what it returned
  batch,             \* request: the targets of a BatchScoringRequest
  batch_result,      \* response of score/batch
  args,              \* the arguments of the last direct call of a library function
  ret,               \* what that call returned or raised
  jobs,              \* predictions._jobs: job id -> job record
  threads            \* job id -> where the job's thread stands in _run_predict_job

vars == <<pc, op, headers, detected_mapping, confidence_scores, validation,
          target, result, file, upload, models_loaded, memo,
          batch, batch_result, args, ret, jobs, threads>>

\* Python's None.  TLC compares only values of one shape, so None has the
\* shape of what it stands in for: a string, a number, or (for a variable that
\* holds no request or response) a plain marker.
None == "None"
NoneStr == <<"None">>
NoneNum == [none |-> TRUE]
\* args and ret while no library call or job request is in progress
NoCall == [call |-> FALSE]

(***************************************************************************)
(* Rationals                                                               *)
(***************************************************************************)
Rat(n, d) == [n |-> n, d |-> d]
RatGT(a, b) == a.n * b.d > b.n * a.d
RatLT(a, b) == a.n * b.d < b.n * a.d
RatEQ(a, b) == a.n * b.d = b.n * a.d
RatGE(a, b) == ~RatLT(a, b)
RatLE(a, b) == ~RatGT(a, b)

(***************************************************************************)
(* Python str operations on character sequences                            *)
(***************************************************************************)
Range(s) == {s[i] : i \in 1..Len(s)}

UPPER == <<"A","B","C","D","E","F","G","H","I","J","K","L","M",
           "N","O","P","Q","R","S","T","U","V","W","X","Y","Z">>
LOWER == <<"a","b","c","d","e","f","g","h","i","j","k","l","m",
           "n","o","p","q","r","s","t","u","v","w","x","y","z">>
WHITESPACE == {" ", "\t", "\n", "\r"}

\* str.lower() / str.upper() of one character
lower_char(c) ==
  IF \E i \in 1..26 : UPPER[i] = c
    THEN LOWER[CHOOSE i \in 1..26 : UPPER[i] = c] ELSE c
upper_char(c) ==
  IF \E i \in 1..26 : LOWER[i] = c
    THEN UPPER[CHOOSE i \in 1..26 : LOWER[i] = c] ELSE c

\* str.lower()
lower(s) == [i \in 1..Len(s) |-> lower_char(s[i])]

\* str.strip(): leading and trailing whitespace removed
strip(s) ==
  LET keep == {i \in 1..Len(s) : s[i] \notin WHITESPACE}
  IN  IF keep = {} THEN <<>>
      ELSE LET lo == CHOOSE i \in keep : \A j \in keep : i <= j
               hi == CHOOSE i \in keep : \A j \in keep : i >= j
           IN  SubSeq(s, lo, hi)

\* a.startswith(b) at offset i (0-based)
StartsAt(s, old, i) ==
  /\ i + Len(old) <= Len(s)
  /\ SubSeq(s, i + 1, i + Len(old)) = old

\* str.replace(old, new), old non-empty: leftmost non-overlapping occurrences
RECURSIVE replace(_, _, _)
replace(s, old, new) ==
  IF Len(s) < Len(old) THEN s
  ELSE IF StartsAt(s, old, 0)
    THEN new \o replace(SubSeq(s, Len(old) + 1, Len(s)), old, new)
    ELSE <<s[1]>> \o replace(Tail(s), old, new)

\* Python's `a in b` on strings
contains(b, a) == \E i \in 0..(Len(b) - Len(a)) : StartsAt(b, a, i)

Max(a, b) == IF a >= b THEN a ELSE b
Min(a, b) == IF a <= b THEN a ELSE b

(***************************************************************************)
(* ColumnDetector                                                          *)
(***************************************************************************)
\* The canonical fields in the declaration order of COLUMN_MAPPINGS, which is
\* the order dict.items() iterates in.
FIELD_ORDER ==
  <<"name", "distance", "star_type", "planet_radius", "orbital_period",
    "stellar_mass", "planet_mass", "temperature", "discovery_year",
    "detection_method", "data_quality">>
Fields == Range(FIELD_ORDER)

COLUMN_MAPPINGS ==
  [ name |-> <<
      <<"n","a","m","e">>,  \* name
      <<"p","l","a","n","e","t","_","n","a","m","e">>,  \* planet_name
      <<"p","l","_","n","a","m","e">>,  \* pl_name
      <<"t","a","r","g","e","t","_","n","a","m","e">>,  \* target_name
      <<"o","b","j","e","c","t","_","n","a","m","e">>,  \* object_name
      <<"i","d","e","n","t","i","f","i","e","r">>,  \* identifier
      <<"d","e","s","i","g","n","a","t","i","o","n">>,  \* designation
      <<"c","o","m","m","o","n","_","n","a","m","e">>,  \* common_name
      <<"p","l","a","n","e","t">>,  \* planet
      <<"t","a","r","g","e","t">>,  \* target
      <<"o","b","j","e","c","t">>,  \* object
      <<"s","o","u","r","c","e","_","n","a","m","e">>,  \* source_name
      <<"c","a","t","a","l","o","g","u","e","_","n","a","m","e">>,  \* catalogue_name
      <<"e","x","o","p","l","a","n","e","t","_","n","a","m","e">>  \* exoplanet_name
    >>,
    distance |-> <<
      <<"d","i","s","t","a","n","c","e">>,  \* distance
      <<"d","i","s","t">>,  \* dist
      <<"s","y","_","d","i","s","t">>,  \* sy_dist
      <<"d","i","s","t","a","n","c","e","_","p","c">>,  \* distance_pc
      <<"d","i","s","t","_","p","c">>,  \* dist_pc
      <<"p","a","r","a","l","l","a","x","_","d","i","s","t","a","n","c","e">>,  \* parallax_distance
      <<"s","t","e","l","l","a","r","_","d","i","s","t","a","n","c","e">>,  \* stellar_distance
      <<"s","t","a","r","_","d","i","s","t","a","n","c","e">>,  \* star_distance
      <<"s","y","s","t","e","m","_","d","i","s","t","a","n","c","e">>,  \* system_distance
      <<"p","a","r","s","e","c","s">>,  \* parsecs
      <<"p","c">>,  \* pc
      <<"d">>,  \* d
      <<"d","i","s","t","_","p","a","r","s","e","c">>  \* dist_parsec
    >>,
    star_type |-> <<
      <<"s","t","a","r","_","t","y","p","e">>,  \* star_type
      <<"s","t","e","l","l","a","r","_","t","y","p","e">>,  \* stellar_type
      <<"s","t","_","s","p","e","c","t","y","p","e">>,  \* st_spectype
      <<"s","p","e","c","t","r","a","l","_","t","y","p","e">>,  \* spectral_type
      <<"s","p","e","c","_","t","y","p","e">>,  \* spec_type
      <<"s","t","e","l","l","a","r","_","c","l","a","s","s">>,  \* stellar_class
      <<"s","t","a","r","_","c","l","a","s","s">>,  \* star_class
      <<"c","l","a","s","s","i","f","i","c","a","t","i","o","n">>,  \* classification
      <<"s","p","t","y","p","e">>,  \* sptype
      <<"s","p","e","c","t","y","p","e">>,  \* spectype
      <<"s","t","_","t","y","p","e">>,  \* st_type
      <<"h","o","s","t","_","s","t","a","r","_","t","y","p","e">>,  \* host_star_type
      <<"h","o","s","t","_","t","y","p","e">>  \* host_type
    >>,
    planet_radius |-> <<
      <<"p","l","a","n","e","t","_","r","a","d","i","u","s">>,  \* planet_radius
      <<"p","l","_","r","a","d","e">>,  \* pl_rade
      <<"r","a","d","i","u","s">>,  \* radius
      <<"p","l","_","r","a","d","i","u","s">>,  \* pl_radius
      <<"r","_","p","l","a","n","e","t">>,  \* r_planet
      <<"p","l","a","n","e","t","_","r">>,  \* planet_r
      <<"r","a","d","i","u","s","_","e","a","r","t","h">>,  \* radius_earth
      <<"e","a","r","t","h","_","r","a","d","i","u","s">>,  \* earth_radius
      <<"r","_","e","a","r","t","h">>,  \* r_earth
      <<"r","e">>,  \* re
      <<"p","l","a","n","e","t","_","s","i","z","e">>,  \* planet_size
      <<"s","i","z","e">>,  \* size
      <<"p","l","_","r","a","d">>,  \* pl_rad
      <<"r","a","d","i","u","s","_","e">>  \* radius_e
    >>,
    orbital_period |-> <<
      <<"o","r","b","i","t","a","l","_","p","e","r","i","o","d">>,  \* orbital_period
      <<"p","e","r","i","o","d">>,  \* period
      <<"p","l","_","o","r","b","p","e","r">>,  \* pl_orbper
      <<"o","r","b","i","t","_","p","e","r","i","o","d">>,  \* orbit_period
      <<"p","e","r","i","o","d","_","d","a","y","s">>,  \* period_days
      <<"o","r","b","i","t","a","l","_","p","e","r","i","o","d","_","d","a","y","s">>,  \* orbital_period_days
      <<"p","l","_","p","e","r","i","o","d">>,  \* pl_period
      <<"p">>,  \* p
      <<"o","r","b","i","t","_","p">>,  \* orbit_p
      <<"p","e","r","i","o","d","_","d">>,  \* period_d
      <<"d","a","y","s">>,  \* days
      <<"p","l","_","o","r","b","p","e","r","d","u","r","1">>  \* pl_orbperdur1
    >>,
    stellar_mass |-> <<
      <<"s","t","e","l","l","a","r","_","m","a","s","s">>,  \* stellar_mass
      <<"s","t","a","r","_","m","a","s","s">>,  \* star_mass
      <<"s","t","_","m","a","s","s">>,  \* st_mass
      <<"h","o","s","t","_","m","a","s","s">>,  \* host_mass
      <<"h","o","s","t","_","s","t","a","r","_","m","a","s","s">>,  \* host_star_mass
      <<"m","_","s","t","a","r">>,  \* m_star
      <<"m","a","s","s","_","s","t","a","r">>,  \* mass_star
      <<"s","t","e","l","l","a","r","_","m">>,  \* stellar_m
      <<"s","t","_","m">>,  \* st_m
      <<"m","s">>,  \* ms
      <<"m","a","s","s","_","s","t","e","l","l","a","r">>,  \* mass_stellar
      <<"h","o","s","t","_","m">>  \* host_m
    >>,
    planet_mass |-> <<
      <<"p","l","a","n","e","t","_","m","a","s","s">>,  \* planet_mass
      <<"p","l","_","m","a","s","s","e">>,  \* pl_masse
      <<"m","a","s","s">>,  \* mass
      <<"p","l","_","m","a","s","s">>,  \* pl_mass
      <<"m","_","p","l","a","n","e","t">>,  \* m_planet
      <<"p","l","a","n","e","t","_","m">>,  \* planet_m
      <<"m","a","s","s","_","e","a","r","t","h">>,  \* mass_earth
      <<"e","a","r","t","h","_","m","a","s","s">>,  \* earth_mass
      <<"m","_","e","a","r","t","h">>,  \* m_earth
      <<"m","e">>,  \* me
      <<"p","l","_","m">>,  \* pl_m
      <<"m","a","s","s","_","e">>,  \* mass_e
      <<"p","l","a","n","e","t","_","m","a","s","s","e">>  \* planet_masse
    >>,
    temperature |-> <<
      <<"t","e","m","p","e","r","a","t","u","r","e">>,  \* temperature
      <<"t","e","m","p">>,  \* temp
      <<"p","l","_","e","q","t">>,  \* pl_eqt
      <<"e","q","u","i","l","i","b","r","i","u","m","_","t","e","m","p","e","r","a","t","u","r","e">>,  \* equilibrium_temperature
      <<"e","q","_","t","e","m","p">>,  \* eq_temp
      <<"t","e","q">>,  \* teq
      <<"t","_","e","q">>,  \* t_eq
      <<"p","l","a","n","e","t","_","t","e","m","p">>,  \* planet_temp
      <<"p","l","_","t","e","m","p">>,  \* pl_temp
      <<"e","f","f","e","c","t","i","v","e","_","t","e","m","p","e","r","a","t","u","r","e">>,  \* effective_temperature
      <<"t","_","e","f","f">>,  \* t_eff
      <<"t","e","m","p","_","e","q">>,  \* temp_eq
      <<"k","e","l","v","i","n">>  \* kelvin
    >>,
    discovery_year |-> <<
      <<"d","i","s","c","o","v","e","r","y","_","y","e","a","r">>,  \* discovery_year
      <<"d","i","s","c","_","y","e","a","r">>,  \* disc_year
      <<"y","e","a","r">>,  \* year
      <<"d","i","s","c","o","v","e","r","y","_","d","a","t","e">>,  \* discovery_date
      <<"f","o","u","n","d","_","y","e","a","r">>,  \* found_year
      <<"d","e","t","e","c","t","e","d","_","y","e","a","r">>,  \* detected_year
      <<"p","u","b","l","i","c","a","t","i","o","n","_","y","e","a","r">>,  \* publication_year
      <<"a","n","n","o","u","n","c","e","_","y","e","a","r">>,  \* announce_year
      <<"y","e","a","r","_","d","i","s","c","o","v","e","r","e","d">>,  \* year_discovered
      <<"y","r">>  \* yr
    >>,
    detection_method |-> <<
      <<"d","e","t","e","c","t","i","o","n","_","m","e","t","h","o","d">>,  \* detection_method
      <<"d","i","s","c","o","v","e","r","y","_","m","e","t","h","o","d">>,  \* discovery_method
      <<"m","e","t","h","o","d">>,  \* method
      <<"d","i","s","c","o","v","e","r","y","m","e","t","h","o","d">>,  \* discoverymethod
      <<"d","e","t","e","c","t","i","o","n","_","t","e","c","h","n","i","q","u","e">>,  \* detection_technique
      <<"d","i","s","c","o","v","e","r","y","_","t","e","c","h","n","i","q","u","e">>,  \* discovery_technique
      <<"t","e","c","h","n","i","q","u","e">>,  \* technique
      <<"m","e","t","h","o","d","_","d","e","t","e","c","t","i","o","n">>,  \* method_detection
      <<"d","e","t","e","c","t","_","m","e","t","h","o","d">>,  \* detect_method
      <<"d","i","s","c","_","m","e","t","h","o","d">>  \* disc_method
    >>,
    data_quality |-> <<
      <<"d","a","t","a","_","q","u","a","l","i","t","y">>,  \* data_quality
      <<"q","u","a","l","i","t","y">>,  \* quality
      <<"d","a","t","a","_","f","l","a","g">>,  \* data_flag
      <<"f","l","a","g">>,  \* flag
      <<"r","e","l","i","a","b","i","l","i","t","y">>,  \* reliability
      <<"c","o","n","f","i","d","e","n","c","e">>,  \* confidence
      <<"q","u","a","l","i","t","y","_","f","l","a","g">>,  \* quality_flag
      <<"g","r","a","d","e">>,  \* grade
      <<"r","a","t","i","n","g">>,  \* rating
      <<"s","t","a","t","u","s">>,  \* status
      <<"v","a","l","i","d","a","t","i","o","n","_","s","t","a","t","u","s">>,  \* validation_status
      <<"v","e","r","i","f","i","e","d">>  \* verified
    >> ]

\* h.lower().strip().replace(' ', '_').replace('-', '_')
normalize_header(h) ==
  replace(replace(strip(lower(h)), <<" ">>, <<"_">>), <<"-">>, <<"_">>)

FUZZY_PATTERNS ==
  << << <<"p","l","_">>, <<"p","l","a","n","e","t","_">> >>,
     << <<"s","t","_">>, <<"s","t","a","r","_">> >>,
     << <<"s","t","_">>, <<"s","t","e","l","l","a","r","_">> >>,
     << <<"s","y","_">>, <<"s","y","s","t","e","m","_">> >>,
     << <<"_","p","c">>, <<"_","p","a","r","s","e","c">> >>,
     << <<"_","e">>, <<"_","e","a","r","t","h">> >>,
     << <<"_","j">>, <<"_","j","u","p","i","t","e","r">> >>,
     << <<"_","d">>, <<"_","d","a","y","s">> >>,
     << <<"_","y","r">>, <<"_","y","e","a","r">> >> >>

\* ColumnDetector._fuzzy_match
_fuzzy_match(str1, str2) ==
  \E k \in 1..Len(FUZZY_PATTERNS) :
    LET pattern == FUZZY_PATTERNS[k]
        str1_clean == replace(replace(str1, pattern[1], <<>>), pattern[2], <<>>)
        str2_clean == replace(replace(str2, pattern[1], <<>>), pattern[2], <<>>)
    IN  str1_clean = str2_clean

\* The similarity of a substring match (line 167), as an exact rational.
substring_score(possible_name, header_lower) ==
  Rat(Cardinality(Range(lower(possible_name)) \cap Range(header_lower)),
      Max(Len(possible_name), Len(header_lower)))

SUBSTRING_THRESHOLD == Rat(6, 10)
FUZZY_SCORE == Rat(8, 10)
EXACT_SCORE == Rat(1, 1)

\* Line 158: header_lower in [p.lower() for p in possible_names]
exact_match(possible_names, header_lower) ==
  \E i \in 1..Len(possible_names) : lower(possible_names[i]) = header_lower

\* Line 166: the substring test of one header against one synonym.
substring_match(header_lower, possible_name) ==
  \/ contains(header_lower, lower(possible_name))
  \/ contains(lower(possible_name), header_lower)

\* Lines 236-244: whether a header is offered for a field.
suggests(possible_names, header) ==
  \E i \in 1..Len(possible_names) :
    \/ substring_match(
         replace(replace(lower(header), <<" ">>, <<"_">>), <<"-">>, <<"_">>),
         possible_names[i])
    \/ _fuzzy_match(
         replace(replace(lower(header), <<" ">>, <<"_">>), <<"-">>, <<"_">>),
         lower(possible_names[i]))

(***************************************************************************)
(* Request inputs                                                          *)
(***************************************************************************)
H_planet      == <<"p","l","a","n","e","t">>
H_Dist_PC     == <<" ","D","i","s","t","-","P","C">>
H_Star_Type   == <<"S","t","a","r"," ","T","y","p","e">>
H_pl_rade     == <<"p","l","_","r","a","d","e">>
H_period      == <<"p","e","r","i","o","d">>
H_st_mass     == <<"s","t","_","m","a","s","s">>
H_xyz         == <<"x","y","z">>
H_Notes       == <<"N","o","t","e","s">>
H_planet_rade == <<"p","l","a","n","e","t","_","r","a","d","e">>
H_pl_name     == <<"p","l","_","n","a","m","e">>
H_sy_dist     == <<"s","y","_","d","i","s","t">>
H_st_spectype == <<"s","t","_","s","p","e","c","t","y","p","e">>
H_pl_orbper   == <<"p","l","_","o","r","b","p","e","r">>

\* The headers request lists are built from.
HEADER_POOL ==
  {H_planet, H_Dist_PC, H_Star_Type, H_pl_rade, H_period, H_st_mass, H_xyz,
   H_Notes, H_planet_rade}

\* The NASA archive header row of the specification's example.
EXAMPLE_HEADERS ==
  <<H_pl_name, H_sy_dist, H_st_spectype, H_pl_rade, H_pl_orbper, H_st_mass>>

\* A header row that leaves a required field unmapped and maps six fields.
PARTIAL_HEADERS == <<H_planet, H_Dist_PC, H_Star_Type, H_period>>

\* A header row of short headers, more than three of which are contained in a
\* synonym of one field.
SHORT_HEADERS == << <<"d">>, H_xyz, <<"i">>, <<"s">>, <<"t">>, <<"a">> >>

\* A header row with a header contained in a synonym at a similarity above
\* 0.8 and two headers that match one field by pattern.
H_distanc == <<"d","i","s","t","a","n","c">>
H_star_mass == <<"s","t","a","r","_","m","a","s","s">>
TIED_HEADERS == <<H_distanc, H_star_mass, H_st_mass>>

\* The longest header list built from the pool.
MaxHeaders == 3

\* The duplicate-free lists over pool of length at most n (a CSV header row
\* read by pandas has no duplicate names).
RECURSIVE ListsUpTo(_, _)
ListsUpTo(pool, n) ==
  IF n = 0 THEN {<<>>}
  ELSE LET shorter == ListsUpTo(pool, n - 1)
       IN  shorter \cup
           {Append(p[1], p[2]) : p \in
              {q \in {t \in shorter : Len(t) = n - 1} \X pool :
                 q[2] \notin Range(q[1])}}

HeaderLists ==
  ListsUpTo(HEADER_POOL, MaxHeaders)
    \cup {EXAMPLE_HEADERS, PARTIAL_HEADERS, SHORT_HEADERS, TIED_HEADERS}

\* The header lists of repeated detect_columns calls.
REPEAT_POOL == {H_planet, H_pl_rade, H_xyz}
MaxRepeatHeaders == 2
RepeatLists == ListsUpTo(REPEAT_POOL, MaxRepeatHeaders)

(***************************************************************************)
(* The tests of the input headers against the synonym table, evaluated     *)
(* once: TLC evaluates a constant definition a single time, and the loops  *)
(* of detect_columns read the tests of these headers from the tables and   *)
(* compute them for any other header.                                      *)
(***************************************************************************)
ALL_HEADERS == HEADER_POOL \cup Range(EXAMPLE_HEADERS)

NORMALIZED == [h \in ALL_HEADERS |-> normalize_header(h)]

HEADER_TESTS ==
  [hl \in {NORMALIZED[h] : h \in ALL_HEADERS} |->
    [f \in Fields |->
      [exact |-> exact_match(COLUMN_MAPPINGS[f], hl),
       synonym |->
         [i \in 1..Len(COLUMN_MAPPINGS[f]) |->
           [substring |-> substring_match(hl, COLUMN_MAPPINGS[f][i]),
            score     |-> substring_score(COLUMN_MAPPINGS[f][i], hl),
            fuzzy     |-> _fuzzy_match(hl, lower(COLUMN_MAPPINGS[f][i]))]]]]]

SUGGESTS == [h \in ALL_HEADERS |-> [f \in Fields |-> suggests(COLUMN_MAPPINGS[f], h)]]

headers_lower_of(h) ==
  IF h \in DOMAIN NORMALIZED THEN NORMALIZED[h] ELSE normalize_header(h)

is_exact(our_field, header_lower) ==
  IF header_lower \in DOMAIN HEADER_TESTS
    THEN HEADER_TESTS[header_lower][our_field].exact
    ELSE exact_match(COLUMN_MAPPINGS[our_field], header_lower)

is_substring(our_field, i, header_lower) ==
  IF header_lower \in DOMAIN HEADER_TESTS
    THEN HEADER_TESTS[header_lower][our_field].synonym[i].substring
    ELSE substring_match(header_lower, COLUMN_MAPPINGS[our_field][i])

score_of(our_field, i, header_lower) ==
  IF header_lower \in DOMAIN HEADER_TESTS
    THEN HEADER_TESTS[header_lower][our_field].synonym[i].score
    ELSE substring_score(COLUMN_MAPPINGS[our_field][i], header_lower)

is_fuzzy(our_field, i, header_lower) ==
  IF header_lower \in DOMAIN HEADER_TESTS
    THEN HEADER_TESTS[header_lower][our_field].synonym[i].fuzzy
    ELSE _fuzzy_match(header_lower, lower(COLUMN_MAPPINGS[our_field][i]))

is_suggested(field, header) ==
  IF header \in DOMAIN SUGGESTS
    THEN SUGGESTS[header][field]
    ELSE suggests(COLUMN_MAPPINGS[field], header)

(***************************************************************************)
(* ColumnDetector.detect_columns                                           *)
(***************************************************************************)
\* Lines 164-170: the partial-match loop over a field's synonyms for one
\* header; best = [exact, match, score].
RECURSIVE substring_loop(_, _, _, _, _)
substring_loop(our_field, i, csv_col, header_lower, best) ==
  IF i > Len(COLUMN_MAPPINGS[our_field]) THEN best
  ELSE IF /\ is_substring(our_field, i, header_lower)
          /\ RatGT(score_of(our_field, i, header_lower), best.score)
          /\ RatGT(score_of(our_field, i, header_lower), SUBSTRING_THRESHOLD)
    THEN substring_loop(our_field, i + 1, csv_col, header_lower,
           [exact |-> FALSE, match |-> csv_col,
            score |-> score_of(our_field, i, header_lower)])
    ELSE substring_loop(our_field, i + 1, csv_col, header_lower, best)

\* A variant of fuzzy_loop in which a pattern match also replaces a best match
\* of the same score.
RECURSIVE fuzzy_loop_later_wins(_, _, _, _, _)
fuzzy_loop_later_wins(our_field, i, csv_col, header_lower, best) ==
  IF i > Len(COLUMN_MAPPINGS[our_field]) THEN best
  ELSE IF /\ is_fuzzy(our_field, i, header_lower)
          /\ RatGE(FUZZY_SCORE, best.score)
    THEN fuzzy_loop_later_wins(our_field, i + 1, csv_col, header_lower,
           [exact |-> FALSE, match |-> csv_col, score |-> FUZZY_SCORE])
    ELSE fuzzy_loop_later_wins(our_field, i + 1, csv_col, header_lower, best)

\* Lines 173-178: the pattern-match loop over a field's synonyms for one header.
RECURSIVE fuzzy_loop(_, _, _, _, _)
fuzzy_loop(our_field, i, csv_col, header_lower, best) ==
  IF i > Len(COLUMN_MAPPINGS[our_field]) THEN best
  ELSE IF /\ is_fuzzy(our_field, i, header_lower)
          /\ RatGT(FUZZY_SCORE, best.score)
    THEN fuzzy_loop(our_field, i + 1, csv_col, header_lower,
           [exact |-> FALSE, match |-> csv_col, score |-> FUZZY_SCORE])
    ELSE fuzzy_loop(our_field, i + 1, csv_col, header_lower, best)

\* A variant of header_loop that stops at the first header that matches the
\* field in any way, exact or partial.
RECURSIVE header_loop_first_match(_, _, _, _, _)
header_loop_first_match(our_field, hs, headers_lower, j, best) ==
  IF best.exact \/ best.match # NoneStr \/ j > Len(hs) THEN best
  ELSE IF is_exact(our_field, headers_lower[j])
    THEN header_loop_first_match(our_field, hs, headers_lower, j + 1,
           [exact |-> TRUE, match |-> hs[j], score |-> EXACT_SCORE])
    ELSE header_loop_first_match(our_field, hs, headers_lower, j + 1,
           fuzzy_loop(our_field, 1, hs[j], headers_lower[j],
             substring_loop(our_field, 1, hs[j], headers_lower[j], best)))

\* Lines 153-178: the loop over zip(headers, headers_lower) for one field, from
\* best_match = None, best_score = 0.  best.exact is TRUE once the loop has
\* left by `break`, having written the field with confidence 1.0.
RECURSIVE header_loop(_, _, _, _, _)
header_loop(our_field, hs, headers_lower, j, best) ==
  IF best.exact \/ j > Len(hs) THEN best
  ELSE IF is_exact(our_field, headers_lower[j])
    THEN header_loop(our_field, hs, headers_lower, j + 1,
           [exact |-> TRUE, match |-> hs[j], score |-> EXACT_SCORE])
    ELSE header_loop(our_field, hs, headers_lower, j + 1,
           fuzzy_loop(our_field, 1, hs[j], headers_lower[j],
             substring_loop(our_field, 1, hs[j], headers_lower[j], best)))

\* Lines 159-160 and 180-182: what one field's loop writes to the two dicts;
\* acc = [mapping, confidence], best the outcome of the field's header loop.
write_field(our_field, acc, best) ==
  IF \/ best.exact
     \/ /\ best.match # NoneStr /\ best.match # <<>>
        /\ our_field \notin DOMAIN acc.mapping
    THEN [mapping    |-> (our_field :> best.match) @@ acc.mapping,
          confidence |-> (our_field :> best.score) @@ acc.confidence]
    ELSE acc

\* Lines 152-182: the loop over COLUMN_MAPPINGS.items().
RECURSIVE field_loop(_, _, _, _)
field_loop(hs, headers_lower, k, acc) ==
  IF k > Len(FIELD_ORDER) THEN acc
  ELSE field_loop(hs, headers_lower, k + 1,
         write_field(FIELD_ORDER[k], acc,
           header_loop(FIELD_ORDER[k], hs, headers_lower, 1,
                       [exact |-> FALSE, match |-> NoneStr, score |-> Rat(0, 1)])))

\* An empty dict.
EmptyDict == [f \in {} |-> None]

\* A variant of fresh_accumulators in which the two dicts outlive the call: a
\* call starts from what the call before it returned.
leftover_accumulators ==
  IF op = "detect_columns"
    THEN [mapping |-> detected_mapping, confidence |-> confidence_scores]
    ELSE [mapping |-> EmptyDict, confidence |-> EmptyDict]

\* The accumulators detect_columns starts from (lines 149-150): two fresh dicts.
fresh_accumulators == [mapping |-> EmptyDict, confidence |-> EmptyDict]

\* ColumnDetector.detect_columns: [mapping, confidence]
detect_columns(hs) ==
  field_loop(hs, [j \in 1..Len(hs) |-> headers_lower_of(hs[j])], 1,
             fresh_accumulators)

(***************************************************************************)
(* ColumnDetector.get_mapping_suggestions and POST /validate-columns       *)
(***************************************************************************)
REQUIRED_FIELDS ==
  <<"name", "distance", "star_type", "planet_radius", "orbital_period",
    "stellar_mass">>
OPTIONAL_FIELDS ==
  <<"planet_mass", "temperature", "discovery_year", "detection_method",
    "data_quality">>

\* [x for x in seq if Test(x)]
Filter(seq, Test(_)) == SelectSeq(seq, Test)

\* dict.values()
Values(d) == {d[k] : k \in DOMAIN d}

\* field_suggestions[:3]
SUGGESTION_LIMIT == 3

\* Lines 233-244: the headers offered for one missing field.
field_suggestions(field, unmapped_headers) ==
  Filter(unmapped_headers, LAMBDA h : is_suggested(field, h))

\* A variant of _generate_suggestions that offers every header it found.
_generate_suggestions_untruncated(missing_fields, unmapped_headers) ==
  [field \in {f \in Range(missing_fields) :
                field_suggestions(f, unmapped_headers) # <<>>} |->
     field_suggestions(field, unmapped_headers)]

\* ColumnDetector._generate_suggestions
_generate_suggestions(missing_fields, unmapped_headers) ==
  [field \in {f \in Range(missing_fields) :
                field_suggestions(f, unmapped_headers) # <<>>} |->
     SubSeq(field_suggestions(field, unmapped_headers), 1,
            Min(SUGGESTION_LIMIT, Len(field_suggestions(field, unmapped_headers))))]

\* Lines 212-213
missing_fields(fields, mapping) == Filter(fields, LAMBDA f : f \notin DOMAIN mapping)

\* Line 215
unmapped_headers_of(hs, mapping) == Filter(hs, LAMBDA h : h \notin Values(mapping))

\* A variant of mapping_quality_of that divides by the number of required fields.
mapping_quality_of_required(mapping) ==
  Rat(Cardinality(DOMAIN mapping), Len(REQUIRED_FIELDS))

\* len(detected_mapping) / len(ColumnDetector.COLUMN_MAPPINGS), line 223
mapping_quality_of(mapping) ==
  Rat(Cardinality(DOMAIN mapping), Cardinality(DOMAIN COLUMN_MAPPINGS))

\* Lines 209-225 of get_mapping_suggestions, detected the outcome of line 207.
mapping_suggestions(hs, detected) ==
  [detected_mapping  |-> detected.mapping,
   confidence_scores |-> detected.confidence,
   missing_required  |-> missing_fields(REQUIRED_FIELDS, detected.mapping),
   missing_optional  |-> missing_fields(OPTIONAL_FIELDS, detected.mapping),
   unmapped_headers  |-> unmapped_headers_of(hs, detected.mapping),
   mapping_quality   |-> mapping_quality_of(detected.mapping),
   suggestions       |-> _generate_suggestions(
                            missing_fields(REQUIRED_FIELDS, detected.mapping)
                              \o missing_fields(OPTIONAL_FIELDS, detected.mapping),
                            unmapped_headers_of(hs, detected.mapping))]

\* ColumnDetector.get_mapping_suggestions
get_mapping_suggestions(hs) == mapping_suggestions(hs, detect_columns(hs))

\* The low-confidence threshold of line 782.
LOW_CONFIDENCE_THRESHOLD == Rat(1, 2)

\* A variant of validation_status_of without the low-confidence override.
validation_status_no_override(can_proceed, mapping_quality) ==
  IF can_proceed THEN "valid" ELSE "missing_required_fields"

\* A variant of validation_status_of whose override applies below 0.6.
validation_status_below_six_tenths(can_proceed, mapping_quality) ==
  IF RatLT(mapping_quality, Rat(6, 10)) THEN "low_confidence"
  ELSE IF can_proceed THEN "valid" ELSE "missing_required_fields"

\* A variant of validation_status_of whose override applies below 0.75.
validation_status_below_three_quarters(can_proceed, mapping_quality) ==
  IF RatLT(mapping_quality, Rat(3, 4)) THEN "low_confidence"
  ELSE IF can_proceed THEN "valid" ELSE "missing_required_fields"

\* Lines 779-783 of validate_csv_columns.
validation_status_of(can_proceed, mapping_quality) ==
  IF RatLT(mapping_quality, LOW_CONFIDENCE_THRESHOLD) THEN "low_confidence"
  ELSE IF can_proceed THEN "valid" ELSE "missing_required_fields"

\* Lines 777-795 of validate_csv_columns: the ColumnMappingResponse built from
\* the outcome of get_mapping_suggestions.
column_mapping_response(suggestions) ==
  [detected_mapping  |-> suggestions.detected_mapping,
   confidence_scores |-> suggestions.confidence_scores,
   missing_required  |-> suggestions.missing_required,
   missing_optional  |-> suggestions.missing_optional,
   unmapped_headers  |-> suggestions.unmapped_headers,
   mapping_quality   |-> suggestions.mapping_quality,
   suggestions       |-> suggestions.suggestions,
   validation_status |-> validation_status_of(
                            Len(suggestions.missing_required) = 0,
                            suggestions.mapping_quality),
   can_proceed       |-> Len(suggestions.missing_required) = 0]

\* validate_csv_columns
validate_csv_columns(hs) == column_mapping_response(get_mapping_suggestions(hs))

(***************************************************************************)
(* Exact rational arithmetic for the engine's float computations.  Binary  *)
(* floating-point error is not modelled: a score is the real number the    *)
(* code's formula denotes.                                                 *)
(***************************************************************************)
Abs(x) == IF x < 0 THEN -x ELSE x

RECURSIVE GCD(_, _)
GCD(a, b) == IF b = 0 THEN a ELSE GCD(b, a % b)

Reduce(n, d, g) == [n |-> n \div g, d |-> d \div g]
\* n / d in lowest terms, d > 0
Norm(n, d) == Reduce(n, d, GCD(Abs(n), d))

RatInt(k) == Rat(k, 1)
RatAdd(a, b) == Norm(a.n * b.d + b.n * a.d, a.d * b.d)
RatSub(a, b) == Norm(a.n * b.d - b.n * a.d, a.d * b.d)
RatMul(a, b) == Norm(a.n * b.n, a.d * b.d)
\* a / b, b # 0
RatDiv(a, b) ==
  IF b.n > 0 THEN Norm(a.n * b.d, a.d * b.n) ELSE Norm(-(a.n * b.d), -(a.d * b.n))
RatAbs(a) == Rat(Abs(a.n), a.d)
RatMax(a, b) == IF RatGE(a, b) THEN a ELSE b
RatMin(a, b) == IF RatLE(a, b) THEN a ELSE b

\* Python's round(x, 1): to the nearest tenth, a tie to the even tenth.
\* tenths = floor(10 x), twice = 2 * (10 x - tenths) * x.d
RoundTenths(tenths, twice, d) ==
  IF twice < d THEN Norm(tenths, 10)
  ELSE IF twice > d THEN Norm(tenths + 1, 10)
  ELSE IF tenths % 2 = 0 THEN Norm(tenths, 10) ELSE Norm(tenths + 1, 10)
round1(x) ==
  RoundTenths((10 * x.n) \div x.d, 2 * ((10 * x.n) % x.d), x.d)

(***************************************************************************)
(* HWOScoringEngine                                                        *)
(***************************************************************************)
\* Python truthiness of an Optional[str]
Truthy(s) == s # NoneStr /\ s # <<>>

S_excellent == <<"e","x","c","e","l","l","e","n","t">>
S_good      == <<"g","o","o","d">>
S_fair      == <<"f","a","i","r">>
S_limited   == <<"l","i","m","i","t","e","d">>
S_poor      == <<"p","o","o","r">>

\* HWOScoringEngine._encode_data_quality on the lowered string (lines 417-427)
encode_quality_lower(quality_lower) ==
  IF contains(quality_lower, S_excellent) THEN Rat(1, 1)
  ELSE IF contains(quality_lower, S_good) THEN Rat(4, 5)
  ELSE IF contains(quality_lower, S_fair) THEN Rat(3, 5)
  ELSE IF contains(quality_lower, S_limited) \/ contains(quality_lower, S_poor)
    THEN Rat(2, 5)
  ELSE Rat(3, 5)

\* HWOScoringEngine._encode_data_quality
_encode_data_quality(quality) ==
  IF ~Truthy(quality) THEN Rat(3, 5) ELSE encode_quality_lower(lower(quality))

\* HWOScoringEngine._encode_star_type
_encode_star_type(star_type) ==
  IF ~Truthy(star_type) THEN Rat(1, 2)
  ELSE CASE upper_char(star_type[1]) = "O" -> Rat(1, 10)
         [] upper_char(star_type[1]) = "B" -> Rat(1, 5)
         [] upper_char(star_type[1]) = "A" -> Rat(3, 10)
         [] upper_char(star_type[1]) = "F" -> Rat(1, 2)
         [] upper_char(star_type[1]) = "G" -> Rat(4, 5)
         [] upper_char(star_type[1]) = "K" -> Rat(9, 10)
         [] upper_char(star_type[1]) = "M" -> Rat(1, 1)
         [] OTHER -> Rat(1, 2)

\* The factor weights of _calculate_characterization_score.
W_DISTANCE == Rat(3, 10)
W_STAR_TYPE == Rat(1, 4)
W_PLANET_RADIUS == Rat(1, 5)
W_DATA_QUALITY == Rat(3, 20)
W_STELLAR_MASS == Rat(1, 10)

\* Jupiter radii to Earth radii (line 452)
EARTH_RADII_PER_JUPITER == Rat(56, 5)

\* A variant of distance_score without the `if distance > 5` guard.
distance_score_unguarded(distance) ==
  RatMax(RatInt(0),
         RatSub(RatInt(1), RatDiv(RatSub(distance, RatInt(5)), RatInt(45))))

\* Line 438
distance_score(distance) ==
  IF RatGT(distance, RatInt(5))
    THEN RatMax(RatInt(0),
                RatSub(RatInt(1), RatDiv(RatSub(distance, RatInt(5)), RatInt(45))))
    ELSE RatInt(1)

\* Lines 444-446
star_score(star_type) ==
  CASE upper_char(star_type[1]) = "G" -> Rat(1, 1)
    [] upper_char(star_type[1]) = "K" -> Rat(9, 10)
    [] upper_char(star_type[1]) = "F" -> Rat(7, 10)
    [] upper_char(star_type[1]) = "M" -> Rat(3, 5)
    [] upper_char(star_type[1]) = "A" -> Rat(3, 10)
    [] OTHER -> Rat(1, 2)

\* Lines 453-456
radius_score(planet_radius_earth) ==
  IF RatLE(Rat(1, 2), planet_radius_earth) /\ RatLE(planet_radius_earth, RatInt(2))
    THEN RatSub(RatInt(1), RatAbs(RatSub(planet_radius_earth, RatInt(1))))
    ELSE RatMax(RatInt(0),
                RatSub(Rat(3, 10),
                       RatDiv(RatAbs(RatSub(planet_radius_earth, RatInt(1))),
                              RatInt(3))))

\* Line 469
mass_score(stellar_mass) ==
  RatMax(RatInt(0), RatSub(RatInt(1), RatAbs(RatSub(stellar_mass, RatInt(1)))))

\* score += factor * weight; weight_sum += weight, when the factor counts
add_factor(acc, counts, factor, weight) ==
  IF counts
    THEN [score      |-> RatAdd(acc.score, RatMul(factor, weight)),
          weight_sum |-> RatAdd(acc.weight_sum, weight)]
    ELSE acc

\* A variant of distance_factor in which a distance above 50 pc still counts,
\* with score 0.
distance_factor_far_counts(acc, t) ==
  add_factor(acc, t.distance # NoneNum, distance_score(t.distance), W_DISTANCE)

\* Lines 435-440
distance_factor(acc, t) ==
  add_factor(acc, t.distance # NoneNum /\ RatLE(t.distance, RatInt(50)),
             distance_score(t.distance), W_DISTANCE)
\* Lines 443-448
star_type_factor(acc, t) ==
  add_factor(acc, Truthy(t.star_type), star_score(t.star_type), W_STAR_TYPE)
\* Lines 451-458
planet_radius_factor(acc, t) ==
  add_factor(acc, t.planet_radius # NoneNum,
             radius_score(RatMul(t.planet_radius, EARTH_RADII_PER_JUPITER)),
             W_PLANET_RADIUS)
\* Lines 461-464
data_quality_factor(acc, t) ==
  add_factor(acc, Truthy(t.data_quality), _encode_data_quality(t.data_quality),
             W_DATA_QUALITY)
\* Lines 467-471
stellar_mass_factor(acc, t) ==
  add_factor(acc, t.stellar_mass # NoneNum, mass_score(t.stellar_mass),
             W_STELLAR_MASS)

\* Line 473
final_score(acc) ==
  IF RatGT(acc.weight_sum, RatInt(0))
    THEN RatMul(RatDiv(acc.score, acc.weight_sum), RatInt(100))
    ELSE RatInt(50)

\* HWOScoringEngine._calculate_characterization_score
_calculate_characterization_score(t) ==
  final_score(
    stellar_mass_factor(
      data_quality_factor(
        planet_radius_factor(
          star_type_factor(
            distance_factor([score |-> RatInt(0), weight_sum |-> RatInt(0)], t),
            t), t), t), t))

\* The six fields _calculate_confidence counts (lines 478-485)
COMPLETENESS_FIELDS ==
  {"distance", "star_type", "planet_radius", "orbital_period", "stellar_mass",
   "data_quality"}

\* Line 489
DEFAULT_MODEL_CERTAINTY == Rat(4, 5)

\* The value of a decimal digit
DIGIT_VALUE ==
  ("0" :> 0) @@ ("1" :> 1) @@ ("2" :> 2) @@ ("3" :> 3) @@ ("4" :> 4) @@
  ("5" :> 5) @@ ("6" :> 6) @@ ("7" :> 7) @@ ("8" :> 8) @@ ("9" :> 9)

\* int(s) for a text of digits
RECURSIVE digits_value(_, _)
digits_value(s, acc) ==
  IF s = <<>> THEN acc
  ELSE digits_value(Tail(s), 10 * acc + DIGIT_VALUE[Head(s)])

\* Whether float(value) of line 492 raises TypeError or ValueError; value is
\* [kind |-> "num", num], [kind |-> "str", str] (a text of digits or of
\* letters) or [kind |-> "none"]
float_fails(value) ==
  \/ value.kind = "none"
  \/ /\ value.kind = "str"
     /\ \/ value.str = <<>>
        \/ \E i \in 1..Len(value.str) : value.str[i] \notin DOMAIN DIGIT_VALUE

\* float(value) of line 492 when it does not raise
float_of(value) ==
  IF value.kind = "num" THEN value.num ELSE RatInt(digits_value(value.str, 0))

\* Lines 489-494
model_certainty(ml_predictions) ==
  IF "habitability_probability" \in DOMAIN ml_predictions
    THEN IF float_fails(ml_predictions["habitability_probability"])
           THEN DEFAULT_MODEL_CERTAINTY
           ELSE float_of(ml_predictions["habitability_probability"])
    ELSE DEFAULT_MODEL_CERTAINTY

STRING_FIELDS == {"name", "star_type", "detection_method", "data_quality"}

\* `field is not None`
is_present(t, f) ==
  IF f \in STRING_FIELDS THEN t[f] # NoneStr ELSE t[f] # NoneNum

\* A variant of completeness that counts the fields that are truthy.
completeness_of_truthy(t) ==
  Rat(Cardinality({f \in COMPLETENESS_FIELDS :
                     /\ is_present(t, f)
                     /\ IF f \in STRING_FIELDS THEN t[f] # <<>> ELSE t[f].n # 0}),
      Cardinality(COMPLETENESS_FIELDS))

\* Line 486
completeness(t) ==
  Rat(Cardinality({f \in COMPLETENESS_FIELDS : is_present(t, f)}),
      Cardinality(COMPLETENESS_FIELDS))

\* HWOScoringEngine._calculate_confidence
_calculate_confidence(t, ml_predictions) ==
  RatMin(RatMax(RatMul(RatAdd(RatMul(completeness(t), Rat(3, 5)),
                              RatMul(model_certainty(ml_predictions), Rat(2, 5))),
                       RatInt(100)),
                RatInt(0)),
         RatInt(100))

\* The priority thresholds of lines 568-573
HIGH_PRIORITY_SCORE == 75
MEDIUM_PRIORITY_SCORE == 50

\* Lines 568-573
priority_of(characterization_score) ==
  IF RatGE(characterization_score, RatInt(HIGH_PRIORITY_SCORE)) THEN "High"
  ELSE IF RatGE(characterization_score, RatInt(MEDIUM_PRIORITY_SCORE)) THEN "Medium"
  ELSE "Low"

\* Lines 576-581
detailed_scores_of(t) ==
  [distance_factor |->
     RatMin(RatInt(100), RatMax(RatInt(0), RatSub(RatInt(100), t.distance))),
   star_type_factor |-> RatMul(_encode_star_type(t.star_type), RatInt(100)),
   planet_size_factor |->
     RatMin(RatInt(100),
            RatDiv(RatInt(100),
                   RatAdd(RatAbs(RatSub(RatMul(t.planet_radius,
                                               EARTH_RADII_PER_JUPITER),
                                        RatInt(1))),
                          RatInt(1)))),
   data_quality_factor |-> RatMul(_encode_data_quality(t.data_quality), RatInt(100))]

\* Lines 513-515: the defaults of the disabled ML branch
DEFAULT_HABITABILITY_SCORE == 50

\* Lines 585-594: the ScoringResult built from the unrounded scores
scoring_result(t, characterization_score, ai_confidence, ml_predictions) ==
  [status                 |-> 200,
   target_name            |-> t.name,
   characterization_score |-> round1(characterization_score),
   habitability_score     |-> round1(RatInt(DEFAULT_HABITABILITY_SCORE)),
   habitability_class     |-> "Unknown",
   ai_confidence          |-> round1(ai_confidence),
   observation_priority   |-> priority_of(characterization_score),
   detailed_scores        |-> detailed_scores_of(t),
   ml_predictions         |-> ml_predictions,
   original_data          |-> None]

\* An HTTPException
HTTPException(status_code, detail) == [status |-> status_code, detail |-> detail]

\* A variant of score_target whose classifier branch (lines 518-558) runs and
\* records a habitability probability.
score_target_with_classifier(loaded, t) ==
  IF ~loaded THEN HTTPException(503, "ML models not available")
  ELSE LET ml_predictions ==
             [k \in {"habitability_probability"} |->
                [kind |-> "num", num |-> Rat(9, 10)]]
       IN scoring_result(t, _calculate_characterization_score(t),
                         _calculate_confidence(t, ml_predictions), ml_predictions)

\* HWOScoringEngine.score_target, loaded the engine's models_loaded
score_target(loaded, t) ==
  IF ~loaded THEN HTTPException(503, "ML models not available")
  ELSE scoring_result(t, _calculate_characterization_score(t),
                      _calculate_confidence(t, EmptyDict), EmptyDict)

(***************************************************************************)
(* Scoring inputs                                                          *)
(***************************************************************************)
S_G2V == <<"G","2","V">>
S_K5V == <<"K","5","V">>
S_F5  == <<"F","5">>
S_m3v == <<"m","3","v">>
S_A0  == <<"A","0">>
S_B   == <<"B">>
S_Excellent == <<"E","x","c","e","l","l","e","n","t">>
S_Good      == <<"G","o","o","d">>
S_Fair      == <<"F","a","i","r">>
S_Poor      == <<"P","o","o","r">>

\* parsecs
DISTANCES ==
  {Rat(-1, 1), Rat(106, 25), Rat(5, 1), Rat(10, 1), Rat(55, 2), Rat(50, 1),
   Rat(101, 2)}
STAR_TYPES == {S_G2V, S_K5V, S_F5, S_m3v, S_A0, S_B, <<>>}
\* Jupiter radii
PLANET_RADII ==
  {Rat(-1, 10), Rat(0, 1), Rat(1, 25), Rat(1, 10), Rat(3, 25), Rat(1, 5)}
\* solar masses
STELLAR_MASSES == {Rat(0, 1), Rat(3, 25), Rat(1, 1), Rat(9, 5), Rat(5, 2)}
DATA_QUALITIES == {NoneStr, <<>>, S_Excellent, S_Good, S_Fair, S_Poor}

\* An ExoplanetTarget with the fields the heuristic engine does not read fixed.
Target(name, distance, star_type, planet_radius, stellar_mass, data_quality) ==
  [name |-> name, distance |-> distance, star_type |-> star_type,
   planet_radius |-> planet_radius, orbital_period |-> Rat(365, 1),
   stellar_mass |-> stellar_mass, planet_mass |-> NoneNum, temperature |-> NoneNum,
   discovery_year |-> NoneNum, detection_method |-> NoneStr,
   data_quality |-> data_quality]

Targets ==
  {Target(<<"T">>, d, s, r, m, q) :
     d \in DISTANCES, s \in STAR_TYPES, r \in PLANET_RADII,
     m \in STELLAR_MASSES, q \in DATA_QUALITIES}

\* The specification's example target
EXAMPLE_TARGET ==
  Target(<<"T">>, Rat(106, 25), S_G2V, Rat(1, 10), Rat(1, 1), S_Excellent)

(***************************************************************************)
(* POST /score/batch (score_multiple_targets)                              *)
(***************************************************************************)
\* Lines 631-636: one pass of the loop; acc = [results, errors]
batch_score_one(acc, scored, t) ==
  IF scored.status = 200
    THEN [acc EXCEPT !.results = Append(@, scored)]
    ELSE [acc EXCEPT !.errors =
            Append(@, [target |-> t.name, error |-> scored.detail])]

\* Lines 630-636: the loop over request.targets
RECURSIVE batch_loop(_, _, _, _)
batch_loop(loaded, targets, i, acc) ==
  IF i > Len(targets) THEN acc
  ELSE batch_loop(loaded, targets, i + 1,
         batch_score_one(acc, score_target(loaded, targets[i]), targets[i]))

\* Lines 638-645: the BatchScoringResponse
batch_scoring_response(targets, scored) ==
  [status  |-> 200,
   results |-> scored.results,
   processing_summary |->
     [total_targets     |-> Len(targets),
      successful_scores |-> Len(scored.results),
      failed_scores     |-> Len(scored.errors),
      errors            |-> scored.errors]]

\* score_multiple_targets, loaded the engine's models_loaded
score_multiple_targets(loaded, targets) ==
  IF ~loaded THEN HTTPException(503, "ML models not available")
  ELSE batch_scoring_response(targets,
         batch_loop(loaded, targets, 1, [results |-> <<>>, errors |-> <<>>]))

\* The targets batch requests are built from.
BATCH_POOL ==
  {Target(<<"A">>, Rat(106, 25), S_G2V, Rat(1, 10), Rat(1, 1), S_Excellent),
   Target(<<"B">>, Rat(101, 2), S_m3v, Rat(1, 5), Rat(5, 2), NoneStr),
   Target(<<"C">>, Rat(10, 1), S_G2V, Rat(3, 25), Rat(3, 25), S_Fair),
   Target(<<"D">>, Rat(50, 1), <<>>, Rat(0, 1), Rat(0, 1), S_Poor)}

\* The most targets of a batch request.
MaxBatch == 3

Batches == ListsUpTo(BATCH_POOL, MaxBatch)

\* What loading the model artifacts can meet: every file there and readable,
\* files missing, or a file that fails to unpickle or parse.
ARTIFACTS == {"readable", "missing", "corrupt"}

\* HWOScoringEngine._load_models: the value it leaves in models_loaded.  A
\* missing file is skipped (lines 269, 276, 283, 290); an exception while
\* reading one ends in line 304.
_load_models(artifacts) == artifacts # "corrupt"

(***************************************************************************)
(* POST /upload (upload_csv_targets)                                       *)
(*                                                                         *)
(* A parsed table is [columns, rows]; a row maps each column to a cell:    *)
(* [kind |-> "num", num |-> r], [kind |-> "str", str |-> s] or             *)
(* [kind |-> "nan"] (an empty cell).                                       *)
(***************************************************************************)
NumCell(r) == [kind |-> "num", num |-> r]
StrCell(s) == [kind |-> "str", str |-> s]
NanCell    == [kind |-> "nan"]

\* Lines 699-701: the fields target_data holds for a row
in_target_data(row, mapping, f) ==
  /\ f \in DOMAIN mapping
  /\ mapping[f] \in DOMAIN row
  /\ row[mapping[f]].kind # "nan"

\* float(target_data.get(f, default)) raises ValueError: the cell holds text
float_raises(row, mapping, f) ==
  in_target_data(row, mapping, f) /\ row[mapping[f]].kind = "str"

\* float(target_data.get(f, default))
float_or(row, mapping, f, default) ==
  IF in_target_data(row, mapping, f) THEN row[mapping[f]].num ELSE default

\* str(target_data.get(f, default)), for a text cell
str_or(row, mapping, f, default) ==
  IF in_target_data(row, mapping, f) THEN row[mapping[f]].str ELSE default

\* Python truthiness of a cell in target_data
truthy_cell(cell) ==
  IF cell.kind = "num" THEN cell.num.n # 0 ELSE cell.str # <<>>

\* float(target_data[f]) if f in target_data and target_data[f] else None
\* raises ValueError (lines 711-713)
optional_raises(row, mapping, f) ==
  /\ in_target_data(row, mapping, f)
  /\ truthy_cell(row[mapping[f]])
  /\ row[mapping[f]].kind = "str"

optional_float(row, mapping, f) ==
  IF in_target_data(row, mapping, f) /\ truthy_cell(row[mapping[f]])
    THEN row[mapping[f]].num ELSE NoneNum

\* Whether building the ExoplanetTarget of lines 704-716 raises
conversion_raises(row, mapping) ==
  \/ \E f \in {"distance", "planet_radius", "orbital_period", "stellar_mass"} :
       float_raises(row, mapping, f)
  \/ \E f \in {"planet_mass", "temperature", "discovery_year"} :
       optional_raises(row, mapping, f)

S_Unknown == <<"U","n","k","n","o","w","n">>

DIGITS == <<"0","1","2","3","4","5","6","7","8","9">>

\* str(n), n >= 0
RECURSIVE str_int(_)
str_int(n) ==
  IF n < 10 THEN <<DIGITS[n + 1]>>
  ELSE str_int(n \div 10) \o <<DIGITS[(n % 10) + 1]>>

\* f'Target-{index+1}'
default_name(index) == <<"T","a","r","g","e","t","-">> \o str_int(index + 1)

\* Lines 704-716: the ExoplanetTarget of a row that converts
converted_target(index, row, mapping) ==
  [name           |-> str_or(row, mapping, "name", default_name(index)),
   distance       |-> float_or(row, mapping, "distance", RatInt(0)),
   star_type      |-> str_or(row, mapping, "star_type", S_Unknown),
   planet_radius  |-> float_or(row, mapping, "planet_radius", RatInt(0)),
   orbital_period |-> float_or(row, mapping, "orbital_period", RatInt(0)),
   stellar_mass   |-> float_or(row, mapping, "stellar_mass", RatInt(1)),
   planet_mass    |-> optional_float(row, mapping, "planet_mass"),
   temperature    |-> optional_float(row, mapping, "temperature"),
   discovery_year |-> optional_float(row, mapping, "discovery_year"),
   detection_method |->
     IF in_target_data(row, mapping, "detection_method")
       THEN row[mapping["detection_method"]].str ELSE NoneStr,
   data_quality   |-> str_or(row, mapping, "data_quality", S_Good)]

\* Lines 695-697: the non-empty cells of the row
original_row_data_of(row) ==
  [col \in {c \in DOMAIN row : row[c].kind # "nan"} |-> row[col]]

\* Line 722: the number of recorded errors after which the loop stops
CONVERSION_ERROR_LIMIT == 10

\* Line 721
row_error(index) ==
  [row |-> index + 1, error |-> "could not convert string to float"]
\* Line 723
MORE_ERRORS == [row |-> 0, error |-> "... and more errors"]

\* A variant of record_error in which the row that failed has already been
\* appended to original_rows (as an empty row).
record_error_keeps_row(acc, index) ==
  IF Len(acc.conversion_errors) + 1 > CONVERSION_ERROR_LIMIT
    THEN [acc EXCEPT !.conversion_errors = Append(Append(@, row_error(index)),
                                                  MORE_ERRORS),
                     !.original_rows = Append(@, EmptyDict),
                     !.stop = TRUE]
    ELSE [acc EXCEPT !.conversion_errors = Append(@, row_error(index)),
                     !.original_rows = Append(@, EmptyDict)]

\* Lines 720-724: the except clause; stop is TRUE when it leaves by `break`
record_error(acc, index) ==
  IF Len(acc.conversion_errors) + 1 > CONVERSION_ERROR_LIMIT
    THEN [acc EXCEPT !.conversion_errors = Append(Append(@, row_error(index)),
                                                  MORE_ERRORS),
                     !.stop = TRUE]
    ELSE [acc EXCEPT !.conversion_errors = Append(@, row_error(index))]

\* Lines 688-724: the conversion loop; index is the 0-based DataFrame index,
\* acc = [targets, conversion_errors, original_rows, stop]
RECURSIVE conversion_loop(_, _, _, _)
conversion_loop(table_rows, mapping, index, acc) ==
  IF acc.stop \/ index >= Len(table_rows) THEN acc
  ELSE IF conversion_raises(table_rows[index + 1], mapping)
    THEN conversion_loop(table_rows, mapping, index + 1, record_error(acc, index))
    ELSE conversion_loop(table_rows, mapping, index + 1,
           [acc EXCEPT
              !.targets = Append(@, converted_target(index, table_rows[index + 1],
                                                     mapping)),
              !.original_rows = Append(@, original_row_data_of(
                                            table_rows[index + 1]))])


(***************************************************************************)
(* Upload inputs: the first rows of a small catalogue under the NASA       *)
(* archive header row, any subset of them with text in the distance cell.  *)
(***************************************************************************)
CATALOGUE_DISTANCES == <<Rat(106, 25), Rat(186, 5), Rat(301, 2), Rat(10, 1)>>
CATALOGUE_STAR_TYPES == <<S_G2V, S_m3v, S_K5V>>
CATALOGUE_RADII == <<Rat(1, 10), Rat(3, 25), Rat(1, 5)>>
CATALOGUE_MASSES == <<Rat(1, 1), Rat(3, 25), Rat(9, 5), Rat(0, 1), Rat(4, 5)>>
S_abc == <<"a","b","c">>

Pick(seq, i) == seq[((i - 1) % Len(seq)) + 1]

\* Row i of the catalogue; every seventh row has no name and no distance.
CatalogueRow(i) ==
  (H_pl_name     :> IF i % 7 = 0 THEN NanCell ELSE StrCell(<<"P">> \o str_int(i))) @@
  (H_sy_dist     :> IF i % 7 = 0 THEN NanCell ELSE NumCell(Pick(CATALOGUE_DISTANCES, i))) @@
  (H_st_spectype :> StrCell(Pick(CATALOGUE_STAR_TYPES, i))) @@
  (H_pl_rade     :> NumCell(Pick(CATALOGUE_RADII, i))) @@
  (H_pl_orbper   :> NumCell(Rat(365, 1))) @@
  (H_st_mass     :> NumCell(Pick(CATALOGUE_MASSES, i)))

\* Row i with a distance that is not a number
BadRow(i) == [CatalogueRow(i) EXCEPT ![H_sy_dist] = StrCell(S_abc)]

INCOMPLETE_HEADERS == <<H_pl_name, H_sy_dist, H_xyz, H_planet_rade>>

\* The header rows of the uploaded tables, and detect_columns on each
UPLOAD_COLUMNS == {EXAMPLE_HEADERS, INCOMPLETE_HEADERS}
UPLOAD_DETECTED == [hs \in UPLOAD_COLUMNS |-> detect_columns(hs)]

\* The most data rows of an uploaded table.
MaxRows == 12

\* The targets the catalogue's rows convert to, and score_target on each
CATALOGUE_TARGETS ==
  {converted_target(i - 1, CatalogueRow(i), UPLOAD_DETECTED[EXAMPLE_HEADERS].mapping) :
     i \in 1..MaxRows}
CATALOGUE_SCORED ==
  [loaded \in BOOLEAN |-> [t \in CATALOGUE_TARGETS |-> score_target(loaded, t)]]

Table(n, bad) ==
  [columns |-> EXAMPLE_HEADERS,
   rows    |-> [i \in 1..n |-> IF i \in bad THEN BadRow(i) ELSE CatalogueRow(i)]]

\* A table whose header row lacks required columns; the rows of bad hold text
\* in the distance column
IncompleteTable(n, bad) ==
  [columns |-> INCOMPLETE_HEADERS,
   rows    |-> [i \in 1..n |->
                 (H_pl_name :> StrCell(<<"P">> \o str_int(i))) @@
                 (H_sy_dist :> IF i \in bad THEN StrCell(S_abc)
                               ELSE NumCell(Pick(CATALOGUE_DISTANCES, i))) @@
                 (H_xyz :> NanCell) @@
                 (H_planet_rade :> NumCell(Pick(CATALOGUE_RADII, i)))]]

NoTable == [columns |-> <<>>, rows |-> <<>>]

UploadFiles ==
  {[csv |-> FALSE, parse |-> "ok", table |-> NoTable],
   [csv |-> TRUE, parse |-> "EmptyDataError", table |-> NoTable],
   [csv |-> TRUE, parse |-> "ParserError", table |-> NoTable]}
  \cup {[csv |-> TRUE, parse |-> "ok", table |-> Table(n, bad)] :
          <<n, bad>> \in {p \in (0..MaxRows) \X SUBSET (1..MaxRows) :
                            p[2] \subseteq 1..p[1]}}
  \cup {[csv |-> TRUE, parse |-> "ok", table |-> IncompleteTable(n, bad)] :
          <<n, bad>> \in {p \in (1..2) \X SUBSET (1..2) : p[2] \subseteq 1..p[1]}}
\* scoring_engine.score_target(target) of line 738, looked up for the targets
\* of the catalogue
scored_target(loaded, t) ==
  IF t \in CATALOGUE_TARGETS THEN CATALOGUE_SCORED[loaded][t]
  ELSE score_target(loaded, t)

\* A variant of score_one in which a target whose scoring raised leaves no
\* error entry.
score_one_drops_failures(acc, i, scored, t, original_rows) ==
  IF scored.status = 200
    THEN [acc EXCEPT !.results =
            Append(@, IF i < Len(original_rows)
                        THEN [scored EXCEPT !.original_data = original_rows[i + 1]]
                        ELSE scored)]
    ELSE acc

\* Lines 738-745: one pass of the scoring loop; acc = [results, errors]
score_one(acc, i, scored, t, original_rows) ==
  IF scored.status = 200
    THEN [acc EXCEPT !.results =
            Append(@, IF i < Len(original_rows)
                        THEN [scored EXCEPT !.original_data = original_rows[i + 1]]
                        ELSE scored)]
    ELSE [acc EXCEPT !.errors =
            Append(@, [target |-> t.name, error |-> scored.detail])]

\* Lines 736-745: the scoring loop over enumerate(targets)
RECURSIVE scoring_loop(_, _, _, _, _)
scoring_loop(loaded, targets, original_rows, i, acc) ==
  IF i >= Len(targets) THEN acc
  ELSE scoring_loop(loaded, targets, original_rows, i + 1,
         score_one(acc, i, scored_target(loaded, targets[i + 1]), targets[i + 1],
                   original_rows))

\* Lines 747-759: the BatchScoringResponse
batch_response(table, detected, converted, scored) ==
  [status  |-> 200,
   results |-> scored.results,
   processing_summary |->
     [total_targets     |-> Len(converted.targets),
      successful_scores |-> Len(scored.results),
      failed_scores     |-> Len(scored.errors),
      errors            |-> scored.errors,
      detected_mapping  |-> detected.mapping,
      confidence_scores |-> detected.confidence,
      conversion_errors |-> converted.conversion_errors,
      rows_processed    |-> Len(table.rows),
      valid_targets     |-> Len(converted.targets)]]

\* Line 729: conversion_errors[:5]
ERRORS_IN_DETAIL == 5

\* A variant of after_conversion whose error lists every row error.
after_conversion_every_error(loaded, table, detected, converted) ==
  IF converted.targets = <<>>
    THEN HTTPException(400,
           [message |-> "No valid targets could be processed",
            errors  |-> converted.conversion_errors])
    ELSE batch_response(table, detected, converted,
           scoring_loop(loaded, converted.targets, converted.original_rows, 0,
                        [results |-> <<>>, errors |-> <<>>]))

\* Lines 726-759, converted the outcome of the conversion loop
after_conversion(loaded, table, detected, converted) ==
  IF converted.targets = <<>>
    THEN HTTPException(400,
           [message |-> "No valid targets could be processed",
            errors  |-> SubSeq(converted.conversion_errors, 1,
                               Min(ERRORS_IN_DETAIL,
                                   Len(converted.conversion_errors)))])
    ELSE batch_response(table, detected, converted,
           scoring_loop(loaded, converted.targets, converted.original_rows, 0,
                        [results |-> <<>>, errors |-> <<>>]))

\* A variant of after_detection that converts the rows before it looks for
\* missing required fields.
after_detection_converts_first(loaded, table, detected) ==
  IF conversion_loop(table.rows, detected.mapping, 0,
       [targets |-> <<>>, conversion_errors |-> <<>>,
        original_rows |-> <<>>, stop |-> FALSE]).targets = <<>>
    THEN after_conversion(loaded, table, detected,
           conversion_loop(table.rows, detected.mapping, 0,
             [targets |-> <<>>, conversion_errors |-> <<>>,
              original_rows |-> <<>>, stop |-> FALSE]))
  ELSE IF missing_fields(REQUIRED_FIELDS, detected.mapping) # <<>>
    THEN HTTPException(400,
           [message |-> "Missing required columns",
            missing_required  |-> missing_fields(REQUIRED_FIELDS, detected.mapping),
            detected_mapping  |-> detected.mapping,
            suggestions       |-> get_mapping_suggestions(table.columns).suggestions,
            unmapped_headers  |-> get_mapping_suggestions(table.columns).unmapped_headers,
            available_columns |-> table.columns])
    ELSE after_conversion(loaded, table, detected,
           conversion_loop(table.rows, detected.mapping, 0,
             [targets |-> <<>>, conversion_errors |-> <<>>,
              original_rows |-> <<>>, stop |-> FALSE]))

\* Lines 665-759, detected the outcome of detect_columns (line 663)
after_detection(loaded, table, detected) ==
  IF missing_fields(REQUIRED_FIELDS, detected.mapping) # <<>>
    THEN HTTPException(400,
           [message |-> "Missing required columns",
            missing_required  |-> missing_fields(REQUIRED_FIELDS, detected.mapping),
            detected_mapping  |-> detected.mapping,
            suggestions       |-> get_mapping_suggestions(table.columns).suggestions,
            unmapped_headers  |-> get_mapping_suggestions(table.columns).unmapped_headers,
            available_columns |-> table.columns])
    ELSE after_conversion(loaded, table, detected,
           conversion_loop(table.rows, detected.mapping, 0,
             [targets |-> <<>>, conversion_errors |-> <<>>,
              original_rows |-> <<>>, stop |-> FALSE]))

\* ColumnDetector.detect_columns(headers) of line 663, looked up for the header
\* rows of the uploaded tables
detected_columns(hs) ==
  IF hs \in UPLOAD_COLUMNS THEN UPLOAD_DETECTED[hs] ELSE detect_columns(hs)

\* upload_csv_targets; upload_file = [csv, parse, table]: whether the filename ends in
\* .csv, what pd.read_csv does ("ok", "EmptyDataError", "ParserError") and the
\* table it returns
upload_csv_targets(loaded, upload_file) ==
  IF ~upload_file.csv THEN HTTPException(400, "File must be a CSV")
  ELSE IF upload_file.parse = "EmptyDataError" THEN HTTPException(400, "CSV file is empty")
  ELSE IF upload_file.parse = "ParserError" THEN HTTPException(400, "CSV parsing error")
  ELSE IF upload_file.table.rows = <<>> \/ upload_file.table.columns = <<>>
    THEN HTTPException(400, "CSV file is empty")
  ELSE after_detection(loaded, upload_file.table,
                       detected_columns(upload_file.table.columns))

(***************************************************************************)
(* SEPHICalculator (data_science/algorithms/sephi.py)                      *)
(***************************************************************************)
\* max(0.0, min(1.0, score)) of lines 50, 76, 103 and 121
clamp_unit(score) == RatMax(RatInt(0), RatMin(RatInt(1), score))

\* Lines 20-22
EARTH_TEMP == Rat(288, 1)
SOL_TEMP == Rat(5778, 1)
EARTH_ORBIT == Rat(365, 1)
\* Line 18
EARTH_RADIUS == Rat(1, 1)

\* Lines 25-30
SEPHI_WEIGHTS ==
  [temperature |-> Rat(7, 20), size |-> Rat(1, 4),
   stellar |-> Rat(1, 5), orbital |-> Rat(1, 5)]

\* lo <= x <= hi
Between(lo, x, hi) == RatLE(lo, x) /\ RatLE(x, hi)

\* Lines 37-50 and the like: 1 - |x - centre| / scale
falloff(top, x, centre, scale) ==
  RatSub(top, RatDiv(RatAbs(RatSub(x, centre)), scale))

\* SEPHICalculator.calculate_temperature_score
SEPHI_calculate_temperature_score(equilibrium_temp) ==
  clamp_unit(
    IF Between(Rat(250, 1), equilibrium_temp, Rat(350, 1))
      THEN falloff(RatInt(1), equilibrium_temp, EARTH_TEMP, Rat(100, 1))
    ELSE IF Between(Rat(150, 1), equilibrium_temp, Rat(450, 1))
      THEN falloff(Rat(1, 2), equilibrium_temp, EARTH_TEMP, Rat(200, 1))
    ELSE RatInt(0))

\* Lines 60-66: the score of the radius alone
size_of_radius(radius) ==
  IF Between(Rat(4, 5), radius, Rat(7, 5))
    THEN falloff(RatInt(1), radius, EARTH_RADIUS, Rat(3, 5))
  ELSE IF Between(Rat(1, 2), radius, Rat(5, 2))
    THEN falloff(Rat(1, 2), radius, EARTH_RADIUS, Rat(2, 1))
  ELSE RatInt(0)

\* radius ** 3 of line 70
cube(radius) == RatMul(radius, RatMul(radius, radius))

\* The kinds of number a caller passes: a Python float, or a numpy float64
\* as read from a DataFrame
NUMBER_KINDS == {"float", "float64"}

\* The exception a call leaves by
Raised(exception) == [raised |-> exception]

\* Line 70 with radius ** 3 = 0: a Python float raises ZeroDivisionError, a
\* float64 gives inf or nan, which lies outside 0.7..1.5 (line 74)
density_factor(radius, mass) ==
  IF Between(Rat(7, 10), RatDiv(mass, cube(radius)), Rat(3, 2))
    THEN RatInt(1) ELSE Rat(1, 2)

\* SEPHICalculator.calculate_size_score
calculate_size_score(kind, radius, mass) ==
  IF mass = NoneNum THEN clamp_unit(size_of_radius(radius))
  ELSE IF cube(radius).n = 0
    THEN IF kind = "float" THEN Raised("ZeroDivisionError")
         ELSE clamp_unit(RatMul(size_of_radius(radius), Rat(1, 2)))
  ELSE clamp_unit(RatMul(size_of_radius(radius), density_factor(radius, mass)))

\* Lines 95-101
age_factor(stellar_age) ==
  IF Between(RatInt(1), stellar_age, RatInt(10)) THEN RatInt(1)
  ELSE IF Between(Rat(1, 2), stellar_age, RatInt(12)) THEN Rat(7, 10)
  ELSE Rat(3, 10)

\* Lines 87-92
stellar_of_temp(stellar_temp) ==
  IF Between(Rat(4500, 1), stellar_temp, Rat(6500, 1))
    THEN falloff(RatInt(1), stellar_temp, SOL_TEMP, Rat(2000, 1))
  ELSE IF Between(Rat(2400, 1), stellar_temp, Rat(7500, 1))
    THEN falloff(Rat(1, 2), stellar_temp, SOL_TEMP, Rat(4000, 1))
  ELSE RatInt(0)

\* SEPHICalculator.calculate_stellar_score
calculate_stellar_score(stellar_temp, stellar_age) ==
  IF stellar_age = NoneNum THEN clamp_unit(stellar_of_temp(stellar_temp))
  ELSE clamp_unit(RatMul(stellar_of_temp(stellar_temp), age_factor(stellar_age)))

\* SEPHICalculator.calculate_orbital_score
calculate_orbital_score(orbital_period) ==
  clamp_unit(
    IF Between(Rat(200, 1), orbital_period, Rat(500, 1))
      THEN falloff(RatInt(1), orbital_period, EARTH_ORBIT, Rat(300, 1))
    ELSE IF Between(Rat(50, 1), orbital_period, Rat(700, 1))
      THEN falloff(Rat(1, 2), orbital_period, EARTH_ORBIT, Rat(600, 1))
    ELSE RatInt(0))

\* Lines 155-158
weighted_sum(component_scores) ==
  RatAdd(RatAdd(RatAdd(
    RatMul(component_scores.temperature, SEPHI_WEIGHTS.temperature),
    RatMul(component_scores.size, SEPHI_WEIGHTS.size)),
    RatMul(component_scores.stellar, SEPHI_WEIGHTS.stellar)),
    RatMul(component_scores.orbital, SEPHI_WEIGHTS.orbital))

\* Lines 154-163, size the outcome of calculate_size_score
sephi_response(component_scores) ==
  [sephi_score |-> weighted_sum(component_scores),
   component_scores |-> component_scores]

\* SEPHICalculator.calculate_sephi_score; a is the record of its arguments
calculate_sephi_score(a) ==
  IF "raised" \in DOMAIN calculate_size_score(a.kind, a.radius, a.mass)
    THEN calculate_size_score(a.kind, a.radius, a.mass)
  ELSE sephi_response(
         [temperature |-> SEPHI_calculate_temperature_score(a.equilibrium_temp),
          size        |-> calculate_size_score(a.kind, a.radius, a.mass),
          stellar     |-> calculate_stellar_score(a.stellar_temp, a.stellar_age),
          orbital     |-> calculate_orbital_score(a.orbital_period)])

\* The arguments the calls are made with
EQUILIBRIUM_TEMPS ==
  {Rat(100, 1), Rat(150, 1), Rat(200, 1), Rat(288, 1), Rat(350, 1), Rat(450, 1)}
RADII == {Rat(-1, 1), Rat(0, 1), Rat(1, 2), Rat(4, 5), Rat(1, 1), Rat(7, 5), Rat(3, 1)}
STELLAR_TEMPS == {Rat(2000, 1), Rat(2400, 1), Rat(4500, 1), Rat(5778, 1), Rat(7000, 1)}
ORBITAL_PERIODS == {Rat(-5, 1), Rat(50, 1), Rat(365, 1), Rat(500, 1), Rat(2000, 1)}
MASSES == {NoneNum, Rat(1, 1), Rat(5, 1)}
STELLAR_AGES == {NoneNum, Rat(7, 10), Rat(5, 1), Rat(13, 1)}

SephiArguments ==
  [kind : NUMBER_KINDS, equilibrium_temp : EQUILIBRIUM_TEMPS, radius : RADII,
   stellar_temp : STELLAR_TEMPS, orbital_period : ORBITAL_PERIODS,
   mass : MASSES, stellar_age : STELLAR_AGES]

(***************************************************************************)
(* CDHSAlgorithm (data_science/algorithms/cdhs.py)                         *)
(***************************************************************************)
\* HabitabilityCriteria, lines 13-35
CRITERIA ==
  [temp_min |-> Rat(273, 1), temp_max |-> Rat(373, 1), temp_optimal |-> Rat(288, 1),
   radius_min |-> Rat(1, 2), radius_max |-> Rat(3, 2), radius_optimal |-> Rat(1, 1),
   flux_min |-> Rat(1, 2), flux_max |-> Rat(2, 1), flux_optimal |-> Rat(1, 1),
   temp_weight |-> Rat(7, 20), radius_weight |-> Rat(1, 4),
   flux_weight |-> Rat(1, 5), stability_weight |-> Rat(1, 5)]

\* The body shared by lines 48-62, 64-77 and 79-92: 0 outside lo..hi, else
\* 1 - |x - optimal| / max(optimal - lo, hi - optimal), not below 0
distance_based_score(x, lo, hi, optimal) ==
  IF RatLT(x, lo) \/ RatGT(x, hi) THEN RatInt(0)
  ELSE RatMax(RatInt(0),
         RatSub(RatInt(1),
                RatDiv(RatAbs(RatSub(x, optimal)),
                       RatMax(RatSub(optimal, lo), RatSub(hi, optimal)))))

\* CDHSAlgorithm.calculate_temperature_score
CDHS_calculate_temperature_score(temp) ==
  distance_based_score(temp, CRITERIA.temp_min, CRITERIA.temp_max,
                       CRITERIA.temp_optimal)

\* CDHSAlgorithm.calculate_radius_score
calculate_radius_score(radius) ==
  distance_based_score(radius, CRITERIA.radius_min, CRITERIA.radius_max,
                       CRITERIA.radius_optimal)

\* CDHSAlgorithm.calculate_flux_score
calculate_flux_score(flux) ==
  distance_based_score(flux, CRITERIA.flux_min, CRITERIA.flux_max,
                       CRITERIA.flux_optimal)

\* Line 98
ecc_score(eccentricity) == RatMax(RatInt(0), RatSub(RatInt(1), eccentricity))

\* Lines 102-109
period_score(orbital_period) ==
  IF RatGT(orbital_period, RatInt(0)) /\ ~Between(Rat(100, 1), orbital_period, Rat(1000, 1))
    THEN RatMax(RatInt(0),
           RatSub(RatInt(1),
                  RatDiv(RatAbs(RatSub(orbital_period, Rat(365, 1))), Rat(1000, 1))))
    ELSE RatInt(1)

\* CDHSAlgorithm.calculate_stability_score
calculate_stability_score(eccentricity, orbital_period) ==
  RatAdd(RatMul(ecc_score(eccentricity), Rat(3, 5)),
         RatMul(period_score(orbital_period), Rat(2, 5)))

\* Lines 140-145
cdhs_weighted(a) ==
  RatAdd(RatAdd(RatAdd(
    RatMul(CDHS_calculate_temperature_score(a.temperature), CRITERIA.temp_weight),
    RatMul(calculate_radius_score(a.radius), CRITERIA.radius_weight)),
    RatMul(calculate_flux_score(a.stellar_flux), CRITERIA.flux_weight)),
    RatMul(calculate_stability_score(a.eccentricity, a.orbital_period),
           CRITERIA.stability_weight))

\* A variant of calculate_cdhs without the min(1.0, ...) of line 147.
calculate_cdhs_unbounded(a) == RatMax(RatInt(0), cdhs_weighted(a))

\* CDHSAlgorithm.calculate_cdhs; a is the record of its arguments
calculate_cdhs(a) == RatMin(RatInt(1), RatMax(RatInt(0), cdhs_weighted(a)))

CDHS_TEMPERATURES == {Rat(200, 1), Rat(273, 1), Rat(288, 1), Rat(373, 1), Rat(400, 1)}
CDHS_RADII == {Rat(0, 1), Rat(1, 2), Rat(1, 1), Rat(5, 4), Rat(2, 1)}
STELLAR_FLUXES == {Rat(0, 1), Rat(1, 2), Rat(1, 1), Rat(2, 1), Rat(3, 1)}
ECCENTRICITIES == {Rat(-1, 1), Rat(0, 1), Rat(1, 10), Rat(1, 1), Rat(2, 1)}
CDHS_PERIODS == {Rat(-5, 1), Rat(0, 1), Rat(50, 1), Rat(365, 1), Rat(1000, 1), Rat(3000, 1)}

CdhsArguments ==
  [temperature : CDHS_TEMPERATURES, radius : CDHS_RADII,
   stellar_flux : STELLAR_FLUXES, eccentricity : ECCENTRICITIES,
   orbital_period : CDHS_PERIODS]

\* The Earth-like optimum
EARTH_SEPHI ==
  [kind |-> "float", equilibrium_temp |-> Rat(288, 1), radius |-> Rat(1, 1),
   stellar_temp |-> Rat(5778, 1), orbital_period |-> Rat(365, 1),
   mass |-> NoneNum, stellar_age |-> NoneNum]
EARTH_CDHS ==
  [temperature |-> Rat(288, 1), radius |-> Rat(1, 1), stellar_flux |-> Rat(1, 1),
   eccentricity |-> Rat(0, 1), orbital_period |-> Rat(365, 1)]

(***************************************************************************)
(* Direct calls of HWOScoringEngine._calculate_confidence                  *)
(***************************************************************************)
\* A value None in a dict
NoneCell == [kind |-> "none"]

\* A target with falsy values in the fields the confidence reads
BLANK_TARGET == Target(<<"T">>, Rat(0, 1), <<>>, Rat(0, 1), Rat(0, 1), <<>>)

\* t with the fields of absent set to None, as getattr(target, f, None) of
\* lines 478-485 reads an attribute that is None or not there
without_fields(t, absent) ==
  [f \in DOMAIN t |->
     IF f \notin absent THEN t[f]
     ELSE IF f \in STRING_FIELDS THEN NoneStr ELSE NoneNum]

ConfidenceTargets ==
  {without_fields(t, absent) :
     t \in {EXAMPLE_TARGET, BLANK_TARGET}, absent \in SUBSET COMPLETENESS_FIELDS}

\* The values met under 'habitability_probability'
PROBABILITY_VALUES ==
  {NumCell(Rat(0, 1)), NumCell(Rat(1, 2)), NumCell(Rat(4, 5)), NumCell(Rat(1, 1)),
   NumCell(Rat(3, 2)), NumCell(Rat(-2, 1)), StrCell(<<"1">>), StrCell(S_abc),
   NoneCell}

\* The ml_predictions dicts the calls are made with
MlPredictions ==
  {EmptyDict, [k \in {"habitability_score"} |-> NumCell(Rat(50, 1))]}
  \cup {[k \in {"habitability_probability"} |-> v] : v \in PROBABILITY_VALUES}

(***************************************************************************)
(* Background prediction jobs (backend/app/api/predictions.py)             *)
(***************************************************************************)
\* The number of jobs started
MaxJobs == 3

\* The local variable res of _run_predict_job before line 23 has run
Unbound == [unbound |-> TRUE]

\* Line 82: the record predict_full stores under a fresh job id
queued_job == [status |-> "queued", created_at |-> "time"]

\* Line 21
job_running(job) == [job EXCEPT !.status = "running"]

\* A variant of job_finished that leaves the status as it is.
job_left_running(job) == job

\* Line 24
job_finished(job) == [job EXCEPT !.status = "finished"]

\* dict.get
Get(d, key) == IF key \in DOMAIN d THEN d[key] ELSE None

\* Lines 25-27
job_stored(job, res) ==
  [k \in DOMAIN job \cup {"result", "output_file"} |->
     IF k = "result" THEN res
     ELSE IF k = "output_file" THEN Get(res, "predictions_saved_to")
     ELSE job[k]]

\* A variant of job_failed that puts the job back in the queue.
job_requeued(job, error) ==
  [k \in DOMAIN job \cup {"error"} |->
     IF k = "status" THEN "queued" ELSE IF k = "error" THEN error ELSE job[k]]

\* Lines 29-30
job_failed(job, error) ==
  [k \in DOMAIN job \cup {"error"} |->
     IF k = "status" THEN "failed" ELSE IF k = "error" THEN error ELSE job[k]]

\* What model_loader.predict_full_dataset returns (model_loader.py 262 and
\* 277-281)
PREDICT_RESULTS ==
  {[error |-> "no dataset found"],
   [predictions_saved_to |-> "predictions.csv", n_rows |-> "n"]}

\* What it raises (predict_dataframe without a model)
PREDICT_ERRORS == {"No model loaded"}

\* The job ids a client asks about: those handed out and one never handed out
JobIds == 1..(MaxJobs + 1)

\* Lines 98-107 of download_job_output for a stored job; on_disk is whether
\* os.path.isfile finds the file of a path
download_response(job, on_disk) ==
  IF Get(job, "status") # "finished" THEN HTTPException(400, "Job not finished")
  ELSE IF Get(job, "output_file") = None \/ ~on_disk
    THEN HTTPException(404, "Output not available")
  ELSE [status |-> 200, path |-> job.output_file]

\* ---------------------------------------------------------------------
\* Observability geometry (utils/observability.py).

\* iwa_check_score: clamp01(separation / IWA - 0.5), and 0.0 when either
\* argument is not positive.
iwa_check_score(separation_mas, inner_working_angle_mas) ==
  IF RatLE(inner_working_angle_mas, RatInt(0)) THEN RatInt(0)
  ELSE IF RatLE(separation_mas, RatInt(0)) THEN RatInt(0)
  ELSE LET ratio == RatDiv(separation_mas, inner_working_angle_mas)
       IN RatMax(RatInt(0), RatMin(RatInt(1), RatSub(ratio, Rat(1, 2))))

\* Angular separations a caller passes, in milliarcseconds.
SEPARATIONS_MAS ==
  {RatInt(-10), RatInt(0), Rat(15, 2), RatInt(30), Rat(75, 2), RatInt(60),
   RatInt(75), RatInt(90), Rat(225, 2), RatInt(120), RatInt(150), RatInt(1000)}

\* Inner working angles a caller passes; 75 is the default of
\* ObservabilityParams.
INNER_WORKING_ANGLES ==
  {RatInt(-75), RatInt(0), RatInt(10), RatInt(50), RatInt(75), RatInt(100),
   RatInt(150), RatInt(200), RatInt(1000)}

\* ---------------------------------------------------------------------
\* POST /prioritize (api/hwo_targets.py). A target is a dict: a record with
\* the keys the request supplies, numbers as rationals and names as strings.

\* bool(t.get(key)) of a number
truthy_number(t, key) == key \in DOMAIN t /\ t[key].n # 0

\* bool(t.get(key)) of a string
truthy_string(t, key) == key \in DOMAIN t /\ t[key] # <<>>

\* Line 87
obs_of(t) ==
  IF truthy_number(t, "observability_score") THEN t.observability_score
  ELSE IF truthy_number(t, "observability") THEN t.observability
  ELSE RatInt(0)

\* Line 88
hab_of(t) ==
  IF truthy_number(t, "habitability_score") THEN t.habitability_score
  ELSE IF truthy_number(t, "sephi_score") THEN t.sephi_score
  ELSE IF truthy_number(t, "sephi") THEN t.sephi
  ELSE RatInt(0)

\* Lines 86-90: the loop over the targets; acc = [scored, obs, hab], obs and
\* hab the loop's variables, which keep their last values after the loop.
RECURSIVE prioritize_loop(_, _, _)
prioritize_loop(targets, i, acc) ==
  IF i > Len(targets) THEN acc
  ELSE prioritize_loop(targets, i + 1,
         [scored |-> Append(acc.scored,
                            [score |-> RatMul(obs_of(targets[i]), hab_of(targets[i])),
                             t |-> targets[i]]),
          obs |-> obs_of(targets[i]),
          hab |-> hab_of(targets[i])])

\* One insertion of the stable descending sort: the pair goes after every
\* pair whose score is not below its own.
RECURSIVE insert_descending(_, _)
insert_descending(sorted, pair) ==
  IF sorted = <<>> THEN <<pair>>
  ELSE IF RatGE(Head(sorted).score, pair.score)
    THEN <<Head(sorted)>> \o insert_descending(Tail(sorted), pair)
    ELSE <<pair>> \o sorted

\* Line 91: scored.sort(key=score, reverse=True), a stable sort
RECURSIVE sort_scored(_)
sort_scored(scored) ==
  IF scored = <<>> THEN <<>>
  ELSE insert_descending(sort_scored(SubSeq(scored, 1, Len(scored) - 1)),
                         scored[Len(scored)])

\* str(priority) of line 96
PRIORITY_DIGITS == <<"1", "2", "3", "4", "5", "6", "7", "8", "9">>
str_of_priority(priority) == <<PRIORITY_DIGITS[priority]>>

\* Line 97
planet_id_of(t) ==
  IF truthy_string(t, "id") THEN t.id
  ELSE IF truthy_string(t, "pl_name") THEN t.pl_name
  ELSE Get(t, "name")

\* Line 101
schedule_distance_of(t) ==
  IF truthy_number(t, "distance") THEN t.distance
  ELSE IF truthy_number(t, "sy_dist") THEN t.sy_dist
  ELSE RatInt(0)

\* Line 102: int() truncates the positive product
observation_time_of(s) ==
  IF RatLT(s, RatInt(1))
    THEN RatMul(RatSub(RatInt(1), s), RatInt(120)).n
           \div RatMul(RatSub(RatInt(1), s), RatInt(120)).d
    ELSE 30

\* A variant of schedule_entry that reports the scores the sort product of the
\* entry's own target was computed from.
schedule_entry_own_scores(pair, priority, obs, hab) ==
  [id                  |-> str_of_priority(priority),
   planet_id           |-> planet_id_of(pair.t),
   priority            |-> priority,
   observability_score |-> obs_of(pair.t),
   habitability_score  |-> hab_of(pair.t),
   distance            |-> schedule_distance_of(pair.t),
   observation_time    |-> observation_time_of(pair.score),
   status              |-> IF priority = 1 THEN "scheduled" ELSE "pending"]

\* Lines 95-104: the entry of one scored target; obs and hab are the values
\* the variables of the first loop were left with.
schedule_entry(pair, priority, obs, hab) ==
  [id                  |-> str_of_priority(priority),
   planet_id           |-> planet_id_of(pair.t),
   priority            |-> priority,
   observability_score |-> IF "observability_score" \in DOMAIN pair.t
                             THEN pair.t.observability_score ELSE obs,
   habitability_score  |-> IF "habitability_score" \in DOMAIN pair.t
                             THEN pair.t.habitability_score ELSE hab,
   distance            |-> schedule_distance_of(pair.t),
   observation_time    |-> observation_time_of(pair.score),
   status              |-> IF priority = 1 THEN "scheduled" ELSE "pending"]

\* Lines 92-105: the loop over the sorted pairs
schedule_of(sorted, obs, hab) ==
  [priority \in 1..Len(sorted) |->
     schedule_entry(sorted[priority], priority, obs, hab)]

\* prioritize_targets
prioritize_targets(targets) ==
  LET looped == prioritize_loop(targets, 1,
                             [scored |-> <<>>, obs |-> Unbound, hab |-> Unbound])
  IN [count    |-> Len(targets),
      schedule |-> schedule_of(sort_scored(looped.scored), looped.obs, looped.hab)]

\* The targets requests are built from: one with the scores under the keys of
\* the schedule, two with them under the alternative keys, one without
\* scores, and one with a zero under observability_score.
T_a == <<"a">>
T_b == <<"b">>
T_c == <<"c">>
T_d == <<"d">>
T_e == <<"e">>
PRIORITIZE_POOL ==
  {[id |-> T_a, observability_score |-> Rat(9, 10), habitability_score |-> Rat(4, 5),
    distance |-> RatInt(10)],
   [id |-> T_b, observability |-> Rat(1, 2), sephi_score |-> Rat(3, 5),
    sy_dist |-> RatInt(20)],
   [pl_name |-> T_c, observability |-> Rat(7, 10), sephi |-> Rat(9, 10)],
   [name |-> T_d],
   [id |-> T_e, observability_score |-> RatInt(0), observability |-> Rat(3, 5),
    habitability_score |-> Rat(1, 2), distance |-> RatInt(0)]}

\* The longest target list of a request
MaxTargets == 4

PrioritizeRequests == ListsUpTo(PRIORITIZE_POOL, MaxTargets)

(***************************************************************************)
(* State machine: a request is submitted, handled by its endpoint in one   *)
(* step, and its response returned.                                        *)
(***************************************************************************)
batchVars == <<batch, batch_result>>
libVars == <<args, ret>>
jobVars == <<jobs, threads>>

Init ==
  /\ pc = "idle"
  /\ op = None
  /\ headers = None
  /\ detected_mapping = None
  /\ confidence_scores = None
  /\ validation = None
  /\ target = None
  /\ result = None
  /\ file = None
  /\ upload = None
  /\ \E artifacts \in ARTIFACTS : models_loaded = _load_models(artifacts)
  /\ memo = {}
  /\ batch = None
  /\ batch_result = None
  /\ args = NoCall
  /\ ret = NoCall
  /\ jobs = <<>>
  /\ threads = <<>>

\* A client posts a header list to /validate-columns.
SubmitHeaders ==
  /\ pc = "idle"
  /\ \E hs \in HeaderLists : headers' = hs
  /\ pc' = "pending"
  /\ op' = "validate-columns"
  /\ UNCHANGED <<detected_mapping, confidence_scores, validation, target,
                 result, file, upload, models_loaded, memo,
                 batchVars, libVars, jobVars>>

\* POST /validate-columns
ValidateColumns ==
  /\ pc = "pending"
  /\ op = "validate-columns"
  /\ validation' = validate_csv_columns(headers)
  /\ detected_mapping' = validation'.detected_mapping
  /\ confidence_scores' = validation'.confidence_scores
  /\ pc' = "done"
  /\ UNCHANGED <<op, headers, target, result, file, upload, models_loaded, memo,
                 batchVars, libVars, jobVars>>

\* A client posts a target to /score.
SubmitTarget ==
  /\ pc = "idle"
  /\ \E t \in Targets : target' = t
  /\ pc' = "pending"
  /\ op' = "score"
  /\ UNCHANGED <<headers, detected_mapping, confidence_scores, validation,
                 result, file, upload, models_loaded, memo,
                 batchVars, libVars, jobVars>>

\* POST /score (score_single_target)
ScoreTarget ==
  /\ pc = "pending"
  /\ op = "score"
  /\ result' = score_target(models_loaded, target)
  /\ pc' = "done"
  /\ UNCHANGED <<op, headers, detected_mapping, confidence_scores, validation,
                 target, file, upload, models_loaded, memo,
                 batchVars, libVars, jobVars>>

\* A client posts a batch of targets to /score/batch.
SubmitBatch ==
  /\ pc = "idle"
  /\ \E ts \in Batches : batch' = ts
  /\ pc' = "pending"
  /\ op' = "score/batch"
  /\ UNCHANGED <<headers, detected_mapping, confidence_scores, validation,
                 target, result, file, upload, models_loaded, memo,
                 batch_result, libVars, jobVars>>

\* POST /score/batch (score_multiple_targets)
ScoreBatch ==
  /\ pc = "pending"
  /\ op = "score/batch"
  /\ batch_result' = score_multiple_targets(models_loaded, batch)
  /\ pc' = "done"
  /\ UNCHANGED <<op, headers, detected_mapping, confidence_scores, validation,
                 target, result, file, upload, models_loaded, memo,
                 batch, libVars, jobVars>>

\* A client posts a file to /upload.
SubmitFile ==
  /\ pc = "idle"
  /\ \E f \in UploadFiles : file' = f
  /\ pc' = "pending"
  /\ op' = "upload"
  /\ UNCHANGED <<headers, detected_mapping, confidence_scores, validation,
                 target, result, upload, models_loaded, memo,
                 batchVars, libVars, jobVars>>

\* POST /upload (upload_csv_targets)
UploadCsv ==
  /\ pc = "pending"
  /\ op = "upload"
  /\ upload' = upload_csv_targets(models_loaded, file)
  /\ pc' = "done"
  /\ UNCHANGED <<op, headers, detected_mapping, confidence_scores, validation,
                 target, result, file, models_loaded, memo,
                 batchVars, libVars, jobVars>>

\* A call of ColumnDetector.detect_columns from anywhere in the process; the
\* two dicts it returns stay in detected_mapping and confidence_scores until the
\* next call.  memo remembers one call, chosen freely, with what it returned,
\* whether a call on another header list came after it (others) and whether
\* the same header list was passed again (again).
detect_columns_returns(hs, detected) ==
  /\ headers' = hs
  /\ detected_mapping' = detected.mapping
  /\ confidence_scores' = detected.confidence
  /\ \/ /\ memo = {}
        /\ memo' = {[headers |-> hs, mapping |-> detected.mapping,
                     confidence |-> detected.confidence,
                     others |-> FALSE, again |-> FALSE]}
     \/ memo' = {[m EXCEPT !.others = @ \/ m.headers # hs,
                           !.again  = @ \/ m.headers = hs] : m \in memo}

DetectColumns ==
  /\ pc = "idle"
  /\ \E hs \in RepeatLists : detect_columns_returns(hs, detect_columns(hs))
  /\ op' = "detect_columns"
  /\ UNCHANGED <<pc, validation, target, result, file, upload, models_loaded,
                 batchVars, libVars, jobVars>>

\* A caller computes the SEPHI of one planet.
CalculateSephiScore ==
  /\ pc = "idle"
  /\ \E a \in SephiArguments :
       /\ args' = a
       /\ ret' = calculate_sephi_score(a)
  /\ op' = "calculate_sephi_score"
  /\ pc' = "done"
  /\ UNCHANGED <<headers, detected_mapping, confidence_scores, validation,
                 target, result, file, upload, models_loaded, memo,
                 batchVars, jobVars>>

\* A caller computes the CDHS of one planet.
CalculateCdhs ==
  /\ pc = "idle"
  /\ \E a \in CdhsArguments :
       /\ args' = a
       /\ ret' = calculate_cdhs(a)
  /\ op' = "calculate_cdhs"
  /\ pc' = "done"
  /\ UNCHANGED <<headers, detected_mapping, confidence_scores, validation,
                 target, result, file, upload, models_loaded, memo,
                 batchVars, jobVars>>

\* A caller scores one angular separation against an inner working angle.
IwaCheckScore ==
  /\ pc = "idle"
  /\ \E separation_mas \in SEPARATIONS_MAS,
        inner_working_angle_mas \in INNER_WORKING_ANGLES :
       /\ args' = [separation_mas |-> separation_mas,
                   inner_working_angle_mas |-> inner_working_angle_mas]
       /\ ret' = iwa_check_score(separation_mas, inner_working_angle_mas)
  /\ op' = "iwa_check_score"
  /\ pc' = "done"
  /\ UNCHANGED <<headers, detected_mapping, confidence_scores, validation,
                 target, result, file, upload, models_loaded, memo,
                 batchVars, jobVars>>

\* A client posts a list of targets to /prioritize.
PrioritizeTargets ==
  /\ pc = "idle"
  /\ \E targets \in PrioritizeRequests :
       /\ args' = [targets |-> targets]
       /\ ret' = prioritize_targets(targets)
  /\ op' = "prioritize"
  /\ pc' = "done"
  /\ UNCHANGED <<headers, detected_mapping, confidence_scores, validation,
                 target, result, file, upload, models_loaded, memo,
                 batchVars, jobVars>>

\* A caller computes the confidence of one target.
CalculateConfidence ==
  /\ pc = "idle"
  /\ \E t \in ConfidenceTargets, ml_predictions \in MlPredictions :
       /\ args' = [target |-> t, ml_predictions |-> ml_predictions]
       /\ ret' = _calculate_confidence(t, ml_predictions)
  /\ op' = "_calculate_confidence"
  /\ pc' = "done"
  /\ UNCHANGED <<headers, detected_mapping, confidence_scores, validation,
                 target, result, file, upload, models_loaded, memo,
                 batchVars, jobVars>>

\* POST /predict-full: a job is stored as queued under a fresh id and its
\* thread started.
PredictFull ==
  /\ pc = "idle"
  /\ Len(jobs) < MaxJobs
  /\ jobs' = Append(jobs, queued_job)
  /\ threads' = Append(threads, [at |-> "start", res |-> Unbound])
  /\ UNCHANGED <<pc, op, headers, detected_mapping, confidence_scores, validation,
                 target, result, file, upload, models_loaded, memo,
                 batchVars, libVars>>

\* _run_predict_job, line 21
RunPredictJob(job_id) ==
  /\ threads[job_id].at = "start"
  /\ jobs' = [jobs EXCEPT ![job_id] = job_running(@)]
  /\ threads' = [threads EXCEPT ![job_id].at = "predicting"]
  /\ UNCHANGED <<pc, op, headers, detected_mapping, confidence_scores, validation,
                 target, result, file, upload, models_loaded, memo,
                 batchVars, libVars>>

\* _run_predict_job, lines 23-24: predict_full_dataset returns
PredictionReturns(job_id) ==
  /\ threads[job_id].at = "predicting"
  /\ \E res \in PREDICT_RESULTS :
       threads' = [threads EXCEPT ![job_id] = [at |-> "storing", res |-> res]]
  /\ jobs' = [jobs EXCEPT ![job_id] = job_finished(@)]
  /\ UNCHANGED <<pc, op, headers, detected_mapping, confidence_scores, validation,
                 target, result, file, upload, models_loaded, memo,
                 batchVars, libVars>>

\* _run_predict_job, lines 25-27
StoreResult(job_id) ==
  /\ threads[job_id].at = "storing"
  /\ jobs' = [jobs EXCEPT ![job_id] = job_stored(@, threads[job_id].res)]
  /\ threads' = [threads EXCEPT ![job_id] = [at |-> "ended", res |-> Unbound]]
  /\ UNCHANGED <<pc, op, headers, detected_mapping, confidence_scores, validation,
                 target, result, file, upload, models_loaded, memo,
                 batchVars, libVars>>

\* _run_predict_job, lines 23 and 28-30: predict_full_dataset raises
PredictionRaises(job_id) ==
  /\ threads[job_id].at = "predicting"
  /\ \E error \in PREDICT_ERRORS :
       jobs' = [jobs EXCEPT ![job_id] = job_failed(@, error)]
  /\ threads' = [threads EXCEPT ![job_id] = [at |-> "ended", res |-> Unbound]]
  /\ UNCHANGED <<pc, op, headers, detected_mapping, confidence_scores, validation,
                 target, result, file, upload, models_loaded, memo,
                 batchVars, libVars>>

\* GET /job-status/{job_id}
JobStatus ==
  /\ pc = "idle"
  /\ \E job_id \in JobIds :
       /\ args' = [job_id |-> job_id]
       /\ ret' = IF job_id \in DOMAIN jobs
                   THEN [status |-> 200, job |-> jobs[job_id]]
                 ELSE HTTPException(404, "Job not found")
  /\ op' = "job-status"
  /\ pc' = "done"
  /\ UNCHANGED <<headers, detected_mapping, confidence_scores, validation,
                 target, result, file, upload, models_loaded, memo,
                 batchVars, jobVars>>

\* GET /download/{job_id}
DownloadJobOutput ==
  /\ pc = "idle"
  /\ \E job_id \in JobIds, on_disk \in BOOLEAN :
       /\ args' = [job_id |-> job_id, on_disk |-> on_disk]
       /\ ret' = IF job_id \in DOMAIN jobs
                   THEN download_response(jobs[job_id], on_disk)
                 ELSE HTTPException(404, "Job not found")
  /\ op' = "download"
  /\ pc' = "done"
  /\ UNCHANGED <<headers, detected_mapping, confidence_scores, validation,
                 target, result, file, upload, models_loaded, memo,
                 batchVars, jobVars>>

\* The response or return value is delivered and the request's data dropped.
Return ==
  /\ pc = "done"
  /\ pc' = "idle"
  /\ op' = None
  /\ headers' = None
  /\ detected_mapping' = None
  /\ confidence_scores' = None
  /\ validation' = None
  /\ target' = None
  /\ result' = None
  /\ file' = None
  /\ upload' = None
  /\ batch' = None
  /\ batch_result' = None
  /\ args' = NoCall
  /\ ret' = NoCall
  /\ UNCHANGED <<models_loaded, memo, jobVars>>

NextColumns == SubmitHeaders \/ ValidateColumns \/ Return
SpecColumns == Init /\ [][NextColumns]_vars

NextScore == SubmitTarget \/ ScoreTarget \/ Return
SpecScore == Init /\ [][NextScore]_vars

\* The two scoring endpoints
NextScoring == SubmitTarget \/ ScoreTarget \/ SubmitBatch \/ ScoreBatch \/ Return
SpecScoring == Init /\ [][NextScoring]_vars

\* The two batch paths
NextBatches == SubmitBatch \/ ScoreBatch \/ SubmitFile \/ UploadCsv \/ Return
SpecBatches == Init /\ [][NextBatches]_vars

NextIndices == CalculateSephiScore \/ CalculateCdhs \/ Return
SpecIndices == Init /\ [][NextIndices]_vars

NextConfidence == CalculateConfidence \/ Return
SpecConfidence == Init /\ [][NextConfidence]_vars

NextObservability == IwaCheckScore \/ Return
SpecObservability == Init /\ [][NextObservability]_vars

NextPrioritize == PrioritizeTargets \/ Return
SpecPrioritize == Init /\ [][NextPrioritize]_vars

NextJobs ==
  \/ PredictFull
  \/ \E job_id \in DOMAIN threads :
       \/ RunPredictJob(job_id)
       \/ PredictionReturns(job_id)
       \/ StoreResult(job_id)
       \/ PredictionRaises(job_id)
  \/ JobStatus
  \/ Return
SpecJobs == Init /\ [][NextJobs]_vars

\* One step of the worker thread of job job_id
WorkerStep(job_id) ==
  /\ job_id \in DOMAIN threads
  /\ \/ RunPredictJob(job_id)
     \/ PredictionReturns(job_id)
     \/ StoreResult(job_id)
     \/ PredictionRaises(job_id)

\* The job threads are scheduled fairly and predict_full_dataset returns or
\* raises: a worker thread that can take a step eventually takes one.
FairWorkers == \A job_id \in 1..MaxJobs : WF_vars(WorkerStep(job_id))
SpecJobsFair == SpecJobs /\ FairWorkers

NextPolls ==
  \/ PredictFull
  \/ \E job_id \in DOMAIN threads : WorkerStep(job_id)
  \/ JobStatus
  \/ DownloadJobOutput
  \/ Return
SpecPolls == Init /\ [][NextPolls]_vars

NextRepeat == DetectColumns
SpecRepeat == Init /\ [][NextRepeat]_vars

NextUpload == SubmitFile \/ UploadCsv \/ Return
SpecUpload == Init /\ [][NextUpload]_vars

Next ==
  \/ SubmitHeaders \/ ValidateColumns
  \/ SubmitTarget \/ ScoreTarget
  \/ SubmitBatch \/ ScoreBatch
  \/ SubmitFile \/ UploadCsv
  \/ DetectColumns
  \/ CalculateSephiScore \/ CalculateCdhs
  \/ CalculateConfidence
  \/ IwaCheckScore
  \/ PrioritizeTargets
  \/ PredictFull
  \/ \E job_id \in DOMAIN threads :
       \/ RunPredictJob(job_id)
       \/ PredictionReturns(job_id)
       \/ StoreResult(job_id)
       \/ PredictionRaises(job_id)
  \/ JobStatus
  \/ DownloadJobOutput
  \/ Return
Spec == Init /\ [][Next]_vars

(***************************************************************************)
(* Properties                                                              *)
(***************************************************************************)
\* A /validate-columns request has been handled and its response not yet returned.
ColumnsValidated == pc = "done" /\ op = "validate-columns"

\* A /score request has been handled and its response not yet returned.
TargetScored == pc = "done" /\ op = "score"

\* An /upload request has been handled and its response not yet returned.
FileUploaded == pc = "done" /\ op = "upload"

\* C1: whenever some header normalizes to a synonym of a canonical field, the
\* field is mapped to the first such header, in input order, with confidence
\* 1.0, whatever partial match an earlier header gave.
ExactMatchWins ==
  ColumnsValidated =>
    \A F \in Fields :
      LET E == {j \in 1..Len(headers) :
                  headers_lower_of(headers[j]) \in Range(COLUMN_MAPPINGS[F])}
      IN  E # {} =>
            /\ F \in DOMAIN detected_mapping
            /\ detected_mapping[F] = headers[CHOOSE j \in E : \A k \in E : j <= k]
            /\ RatEQ(confidence_scores[F], Rat(1, 1))

\* "planet" is a partial match for planet_radius, "pl_rade" after it an exact one.
ExactAfterPartial ==
  /\ ColumnsValidated
  /\ headers = <<H_planet, H_pl_rade>>
  /\ detected_mapping["planet_radius"] = H_pl_rade
  /\ detected_mapping["name"] = H_planet

\* C2: the mapping is injective into the input headers: every mapped value is
\* one of the input headers, and no header is the value of two fields.
MappingInjective ==
  ColumnsValidated =>
    /\ \A F \in DOMAIN detected_mapping : detected_mapping[F] \in Range(headers)
    /\ \A F, G \in DOMAIN detected_mapping :
         F # G => detected_mapping[F] # detected_mapping[G]

\* No header of the request matches a synonym of any field by the exact rule,
\* the substring rule above 0.6 or the pattern rule.
NoHeaderMatches ==
  \A j \in 1..Len(headers) : \A F \in Fields :
    /\ ~is_exact(F, headers_lower_of(headers[j]))
    /\ \A i \in 1..Len(COLUMN_MAPPINGS[F]) :
         /\ ~(/\ is_substring(F, i, headers_lower_of(headers[j]))
              /\ RatGT(score_of(F, i, headers_lower_of(headers[j])), Rat(6, 10)))
         /\ ~is_fuzzy(F, i, headers_lower_of(headers[j]))

\* C3, as stated: a header list in which nothing matches gives an empty mapping,
\* mapping_quality 0 and validation_status "missing_required_fields".
GarbageIsMissingRequired ==
  (ColumnsValidated /\ NoHeaderMatches) =>
    /\ DOMAIN validation.detected_mapping = {}
    /\ RatEQ(validation.mapping_quality, Rat(0, 1))
    /\ validation.validation_status = "missing_required_fields"

\* C3, amended: a header list in which nothing matches gives an empty mapping,
\* mapping_quality 0 and validation_status "low_confidence".
GarbageIsLowConfidence ==
  (ColumnsValidated /\ NoHeaderMatches) =>
    /\ DOMAIN validation.detected_mapping = {}
    /\ RatEQ(validation.mapping_quality, Rat(0, 1))
    /\ validation.validation_status = "low_confidence"

GarbageValidated ==
  /\ ColumnsValidated
  /\ headers = <<H_xyz, H_Notes>>
  /\ NoHeaderMatches
  /\ validation.validation_status = "low_confidence"
  /\ validation.can_proceed = FALSE

\* C4: validation_status is "low_confidence" when mapping_quality < 0.5;
\* otherwise "valid" when all six required fields are mapped and
\* "missing_required_fields" when one is not.
ValidationStatusRule ==
  ColumnsValidated =>
    validation.validation_status =
      IF RatLT(validation.mapping_quality, Rat(1, 2)) THEN "low_confidence"
      ELSE IF \A F \in {"name", "distance", "star_type", "planet_radius",
                        "orbital_period", "stellar_mass"} :
                F \in DOMAIN validation.detected_mapping
        THEN "valid"
        ELSE "missing_required_fields"

\* Six fields mapped and stellar_mass not among them
MissingRequiredAboveHalf ==
  /\ ColumnsValidated
  /\ headers = PARTIAL_HEADERS
  /\ RatGE(validation.mapping_quality, Rat(1, 2))
  /\ "stellar_mass" \notin DOMAIN validation.detected_mapping
  /\ validation.validation_status = "missing_required_fields"

\* C5: mapping_quality is the number of mapped canonical fields over 11, and
\* lies in [0, 1].
MappingQualityIsFraction ==
  ColumnsValidated =>
    /\ RatEQ(validation.mapping_quality,
             Rat(Cardinality(DOMAIN validation.detected_mapping), 11))
    /\ RatGE(validation.mapping_quality, Rat(0, 1))
    /\ RatLE(validation.mapping_quality, Rat(1, 1))

\* The NASA archive header row maps seven of the eleven fields.
SevenOfEleven ==
  /\ ColumnsValidated
  /\ headers = EXAMPLE_HEADERS
  /\ Cardinality(DOMAIN validation.detected_mapping) = 7
  /\ validation.validation_status = "valid"

ScoreInRange ==
  TargetScored =>
    /\ RatGE(_calculate_characterization_score(target), RatInt(0))
    /\ RatLE(_calculate_characterization_score(target), RatInt(100))
    /\ result.status = 200 =>
         /\ RatGE(result.characterization_score, RatInt(0))
         /\ RatLE(result.characterization_score, RatInt(100))

\* A target whose every counted factor is 0
ScoredZero ==
  /\ TargetScored
  /\ result.status = 200
  /\ RatEQ(result.characterization_score, RatInt(0))
  /\ RatGT(RatMul(target.planet_radius, Rat(56, 5)), RatInt(2))

\* C8: the observation_priority of a result is "High" when the result's
\* characterization_score is at least 75, "Medium" when it is at least 50 and
\* below 75, and "Low" otherwise.
PriorityFollowsReportedScore ==
  (TargetScored /\ result.status = 200) =>
    result.observation_priority =
      IF RatGE(result.characterization_score, RatInt(75)) THEN "High"
      ELSE IF RatGE(result.characterization_score, RatInt(50)) THEN "Medium"
      ELSE "Low"

\* C9: the characterization score is 100 x (the sum of weight x factor over the
\* factors present) / (the sum of the weights of the factors present), with
\* weights 0.30, 0.25, 0.20, 0.15 and 0.10; a distance above 50 pc is not a
\* factor present; and the example target scores above 75 with priority High.
WeightedAverageOfPresentFactors ==
  TargetScored =>
    LET t == target
        far == RatGT(t.distance, RatInt(50))
        S == RatAdd(
               RatAdd(
                 RatAdd(
                   RatAdd(
                     IF far THEN RatInt(0)
                       ELSE RatMul(Rat(30, 100), distance_score(t.distance)),
                     IF ~Truthy(t.star_type) THEN RatInt(0)
                       ELSE RatMul(Rat(25, 100), star_score(t.star_type))),
                   RatMul(Rat(20, 100),
                          radius_score(RatMul(t.planet_radius, Rat(112, 10))))),
                 IF ~Truthy(t.data_quality) THEN RatInt(0)
                   ELSE RatMul(Rat(15, 100), _encode_data_quality(t.data_quality))),
               RatMul(Rat(10, 100), mass_score(t.stellar_mass)))
        W == RatAdd(
               RatAdd(
                 RatAdd(
                   RatAdd(IF far THEN RatInt(0) ELSE Rat(30, 100),
                          IF ~Truthy(t.star_type) THEN RatInt(0) ELSE Rat(25, 100)),
                   Rat(20, 100)),
                 IF ~Truthy(t.data_quality) THEN RatInt(0) ELSE Rat(15, 100)),
               Rat(10, 100))
    IN  /\ RatEQ(_calculate_characterization_score(t),
                 RatDiv(RatMul(RatInt(100), S), W))
        /\ (t = EXAMPLE_TARGET /\ result.status = 200) =>
             /\ RatGT(result.characterization_score, RatInt(75))
             /\ result.observation_priority = "High"

\* A target farther than 50 pc has been scored.
FarTargetScored ==
  /\ TargetScored
  /\ result.status = 200
  /\ RatGT(target.distance, RatInt(50))
  /\ RatGT(result.characterization_score, RatInt(0))

\* C10: for an uploaded table of N data rows of which K fail type conversion,
\* at least one row converting, the response holds N - K scored targets and the
\* conversion error list holds one entry per failed row with its 1-based row
\* number, or, when K > 10, 11 entries of which one is the marker.
UploadCountsRows ==
  (/\ FileUploaded
   /\ models_loaded
   /\ file.csv
   /\ file.parse = "ok"
   /\ file.table.columns = EXAMPLE_HEADERS
   /\ \E i \in 1..Len(file.table.rows) : file.table.rows[i][H_sy_dist].kind # "str")
  =>
    LET N == Len(file.table.rows)
        failed == {i \in 1..N : file.table.rows[i][H_sy_dist].kind = "str"}
        K == Cardinality(failed)
    IN  /\ upload.status = 200
        /\ Len(upload.results) = N - K
        /\ LET errs == upload.processing_summary.conversion_errors
           IN  IF K <= 10
                 THEN /\ Len(errs) = K
                      /\ {errs[k].row : k \in 1..Len(errs)} = failed
                 ELSE /\ Len(errs) = 11
                      /\ Cardinality({k \in 1..Len(errs) : errs[k] = MORE_ERRORS}) = 1

\* C11: once more than ten rows of an upload have failed conversion, every
\* later row that converts is still turned into a target and scored.
ProcessingContinuesAfterLimit ==
  (/\ FileUploaded
   /\ models_loaded
   /\ file.csv
   /\ file.parse = "ok"
   /\ file.table.columns = EXAMPLE_HEADERS)
  =>
    LET rows == file.table.rows
        failed == {i \in 1..Len(rows) : rows[i][H_sy_dist].kind = "str"}
        later == {i \in 1..Len(rows) :
                    /\ i \notin failed
                    /\ Cardinality({j \in failed : j < i}) > 10}
    IN  later # {} =>
          /\ upload.status = 200
          /\ \A i \in later :
               \E k \in 1..Len(upload.results) :
                 upload.results[k].original_data = original_row_data_of(rows[i])

\* A /score/batch request has been handled and its response not yet returned.
BatchScored == pc = "done" /\ op = "score/batch"

\* C12: when the model artifacts failed to load, score_target and the batch
\* endpoint still answer with characterization score, confidence and priority.
HeuristicModeWithoutModels ==
  ~models_loaded =>
    /\ TargetScored =>
         /\ result.status = 200
         /\ result.observation_priority \in {"High", "Medium", "Low"}
         /\ RatGE(result.characterization_score, RatInt(0))
         /\ RatGE(result.ai_confidence, RatInt(0))
    /\ BatchScored =>
         /\ batch_result.status = 200
         /\ Len(batch_result.results) = Len(batch)

CatalogueUploaded ==
  /\ FileUploaded
  /\ file.csv
  /\ file.parse = "ok"
  /\ file.table.columns = EXAMPLE_HEADERS

\* C14: when no row of an uploaded table converts, the upload answers with one
\* 400 error that lists the first row errors, five at most, and carries no
\* scoring result.
NoTargetsIsOneError ==
  (/\ CatalogueUploaded
   /\ file.table.rows # <<>>
   /\ \A i \in 1..Len(file.table.rows) :
        conversion_raises(file.table.rows[i], detected_columns(EXAMPLE_HEADERS).mapping))
  =>
    /\ upload.status = 400
    /\ DOMAIN upload = {"status", "detail"}
    /\ upload.detail.message = "No valid targets could be processed"
    /\ Len(upload.detail.errors) = Min(ERRORS_IN_DETAIL, Len(file.table.rows))
    /\ \A k \in 1..Len(upload.detail.errors) :
         upload.detail.errors[k] = row_error(k - 1)

\* A table of more than five rows, none of which converts
SixRowsNoneConverts ==
  /\ CatalogueUploaded
  /\ Len(file.table.rows) > ERRORS_IN_DETAIL
  /\ \A i \in 1..Len(file.table.rows) : file.table.rows[i][H_sy_dist].kind = "str"
  /\ upload.status = 400
  /\ Len(upload.detail.errors) = ERRORS_IN_DETAIL

\* C15: an upload whose header row leaves a required field unmapped is
\* answered with a 400 error that carries the missing fields, the suggestions
\* and the header row as read, and nothing of row conversion or scoring,
\* whatever its rows hold.
MissingRequiredRejected ==
  (/\ FileUploaded
   /\ file.csv
   /\ file.parse = "ok"
   /\ file.table.rows # <<>>
   /\ file.table.columns # <<>>
   /\ missing_fields(REQUIRED_FIELDS,
                     detected_columns(file.table.columns).mapping) # <<>>)
  =>
    /\ upload.status = 400
    /\ DOMAIN upload = {"status", "detail"}
    /\ upload.detail.message = "Missing required columns"
    /\ upload.detail.missing_required =
         missing_fields(REQUIRED_FIELDS, detected_columns(file.table.columns).mapping)
    /\ upload.detail.suggestions =
         get_mapping_suggestions(file.table.columns).suggestions
    /\ upload.detail.available_columns = file.table.columns
    /\ DOMAIN upload.detail \cap {"errors", "conversion_errors", "results"} = {}

\* An upload without the required columns, no row of which would convert
IncompleteAndUnconvertible ==
  /\ FileUploaded
  /\ file.parse = "ok"
  /\ file.table.columns = INCOMPLETE_HEADERS
  /\ Len(file.table.rows) = 2
  /\ \A i \in 1..2 : file.table.rows[i][H_sy_dist].kind = "str"
  /\ upload.status = 400
  /\ upload.detail.message = "Missing required columns"
  /\ upload.detail.missing_required # <<>>

\* The positions of the rows that convert, in row order
ConvertingRows(rows, mapping) ==
  {i \in 1..Len(rows) : ~conversion_raises(rows[i], mapping)}

\* The position of the k-th row that converts
NthConverting(rows, mapping, k) ==
  CHOOSE i \in ConvertingRows(rows, mapping) :
    Cardinality({j \in ConvertingRows(rows, mapping) : j <= i}) = k

\* C16: the results of /score/batch follow the order of the request, and the
\* k-th result of an upload is the score of the k-th row that converted and
\* carries that row as original_data; the error entries of targets that failed
\* scoring follow the same order.
ResultsInInputOrder ==
  /\ (BatchScored /\ batch_result.status = 200) =>
       /\ Len(batch_result.results) = Len(batch)
       /\ \A k \in 1..Len(batch) :
            batch_result.results[k].target_name = batch[k].name
  /\ (CatalogueUploaded /\ upload.status = 200) =>
       LET rows == file.table.rows
           mapping == detected_columns(EXAMPLE_HEADERS).mapping
           errors == upload.processing_summary.errors
       IN  /\ Len(upload.results) <= Cardinality(ConvertingRows(rows, mapping))
           /\ \A k \in 1..Len(upload.results) :
                LET i == NthConverting(rows, mapping, k)
                IN  /\ upload.results[k].original_data = original_row_data_of(rows[i])
                    /\ upload.results[k].target_name =
                         converted_target(i - 1, rows[i], mapping).name
           /\ \A k \in 1..Len(errors) :
                errors[k].target =
                  converted_target(NthConverting(rows, mapping, k) - 1,
                                   rows[NthConverting(rows, mapping, k)], mapping).name

\* An upload whose first and third rows failed conversion and whose second
\* and fourth rows were scored
ScoredAfterFailedRows ==
  /\ CatalogueUploaded
  /\ Len(file.table.rows) = 4
  /\ file.table.rows[1][H_sy_dist].kind = "str"
  /\ file.table.rows[3][H_sy_dist].kind = "str"
  /\ upload.status = 200
  /\ Len(upload.results) = 2
  /\ upload.results[1].original_data = original_row_data_of(file.table.rows[2])
  /\ upload.results[2].original_data = original_row_data_of(file.table.rows[4])

\* calculate_sephi_score has been called.
SephiCalled == pc = "done" /\ op = "calculate_sephi_score"

\* calculate_cdhs has been called.
CdhsCalled == pc = "done" /\ op = "calculate_cdhs"

\* 0 <= x <= 1
InUnitRange(x) == Between(RatInt(0), x, RatInt(1))

\* C17: every call of calculate_sephi_score returns the four component scores
\* and the composite sephi_score, each of them in [0, 1].
SephiScoresInUnitRange ==
  SephiCalled =>
    /\ DOMAIN ret = {"sephi_score", "component_scores"}
    /\ InUnitRange(ret.sephi_score)
    /\ \A c \in {"temperature", "size", "stellar", "orbital"} :
         InUnitRange(ret.component_scores[c])

\* Every call that returns, returns scores in [0, 1].
ReturnedSephiScoresInUnitRange ==
  (SephiCalled /\ "raised" \notin DOMAIN ret) =>
    /\ InUnitRange(ret.sephi_score)
    /\ \A c \in {"temperature", "size", "stellar", "orbital"} :
         InUnitRange(ret.component_scores[c])

\* C18: at the Earth-like optimum calculate_sephi_score and calculate_cdhs
\* return a composite of at least 0.95, and no call returns a larger composite
\* than the one of the optimum.
EarthOptimumIsMaximal ==
  /\ (SephiCalled /\ "raised" \notin DOMAIN ret) =>
       /\ RatLE(ret.sephi_score, calculate_sephi_score(EARTH_SEPHI).sephi_score)
       /\ args = EARTH_SEPHI => RatGE(ret.sephi_score, Rat(19, 20))
  /\ CdhsCalled =>
       /\ RatLE(ret, calculate_cdhs(EARTH_CDHS))
       /\ args = EARTH_CDHS => RatGE(ret, Rat(19, 20))

\* calculate_cdhs called at the Earth-like optimum
CdhsOfEarth ==
  /\ CdhsCalled
  /\ args = EARTH_CDHS
  /\ ret = Rat(1, 1)

\* _calculate_confidence has been called.
ConfidenceCalled == pc = "done" /\ op = "_calculate_confidence"

\* The number of the six fields of t that are not None
PresentFields(t) ==
  Cardinality({f \in {"distance", "planet_radius", "orbital_period", "stellar_mass"} :
                 t[f] # NoneNum})
  + Cardinality({f \in {"star_type", "data_quality"} : t[f] # NoneStr})

\* Whether d carries a habitability probability: a number, or a text of digits
CarriesProbability(d) ==
  /\ "habitability_probability" \in DOMAIN d
  /\ \/ d["habitability_probability"].kind = "num"
     \/ /\ d["habitability_probability"].kind = "str"
        /\ d["habitability_probability"].str \in {<<"0">>, <<"1">>}

\* The probability d carries
ProbabilityOf(d) ==
  IF d["habitability_probability"].kind = "num"
    THEN d["habitability_probability"].num
  ELSE IF d["habitability_probability"].str = <<"1">> THEN Rat(1, 1)
  ELSE Rat(0, 1)

\* 100 x (0.6 x p/6 + 0.4 x c), as 10 p + 40 c
ConfidenceOf(p, c) == RatAdd(RatInt(10 * p), RatMul(RatInt(40), c))

\* C19: _calculate_confidence returns 100 x (0.6 x p/6 + 0.4 x c) clamped to
\* [0, 100], p the number of the six fields that are not None and c the
\* habitability probability of ml_predictions, or 0.8 when it carries none.
ConfidenceIsWeightedSum ==
  ConfidenceCalled =>
    LET p == PresentFields(args.target)
        c == IF CarriesProbability(args.ml_predictions)
               THEN ProbabilityOf(args.ml_predictions) ELSE Rat(4, 5)
    IN  /\ RatEQ(ret, RatMax(RatInt(0), RatMin(RatInt(100), ConfidenceOf(p, c))))
        /\ Between(RatInt(0), ret, RatInt(100))

\* A call with three fields present, two of them falsy, and a probability of
\* one half: 30 + 20 = 50
HalfCompleteHalfCertain ==
  /\ ConfidenceCalled
  /\ PresentFields(args.target) = 3
  /\ args.target.distance = Rat(0, 1)
  /\ args.target.star_type = <<>>
  /\ "habitability_probability" \in DOMAIN args.ml_predictions
  /\ args.ml_predictions["habitability_probability"] = NumCell(Rat(1, 2))
  /\ ret = Rat(50, 1)

\* The statuses of a background prediction job
JOB_STATUSES == {"queued", "running", "finished", "failed"}

\* The steps a job's status takes
JOB_STEPS ==
  {<<"queued", "running">>, <<"running", "finished">>, <<"running", "failed">>}

\* In one step every stored job stays stored and keeps its status or takes one
\* of the three steps, and a job that enters the store enters it as queued.
JobStep ==
  /\ DOMAIN jobs \subseteq DOMAIN jobs'
  /\ \A job_id \in DOMAIN jobs :
       \/ jobs'[job_id].status = jobs[job_id].status
       \/ <<jobs[job_id].status, jobs'[job_id].status>> \in JOB_STEPS
  /\ \A job_id \in DOMAIN jobs' \ DOMAIN jobs : jobs'[job_id].status = "queued"
  /\ \A job_id \in DOMAIN jobs' : jobs'[job_id].status \in JOB_STATUSES

\* C20: a job's status is one of queued, running, finished, failed; it only
\* goes from queued to running and from running to finished or failed;
\* finished and failed are never left, and no job leaves the store.
JobStatusContract == [][JobStep]_vars

\* Three jobs in the store: one finished with its result stored, one failed,
\* one still running
FinishedFailedAndRunning ==
  /\ Len(jobs) = 3
  /\ jobs[1].status = "finished"
  /\ "output_file" \in DOMAIN jobs[1]
  /\ jobs[2].status = "failed"
  /\ jobs[3].status = "running"

\* The job job_id is stored and has ended.
JobEnded(job_id) ==
  /\ job_id \in DOMAIN jobs
  /\ jobs[job_id].status \in {"finished", "failed"}

\* C21: under fair scheduling of the worker threads every job that
\* predict_full has stored eventually has status finished or failed.
EveryJobEnds ==
  \A job_id \in 1..MaxJobs : (job_id \in DOMAIN jobs) ~> JobEnded(job_id)

\* Every job that could be started has ended, the first of them as failed
AllJobsEnded ==
  /\ Len(jobs) = MaxJobs
  /\ \A job_id \in 1..MaxJobs : JobEnded(job_id)
  /\ jobs[1].status = "failed"
  /\ \A job_id \in 1..MaxJobs : threads[job_id].at = "ended"

\* The worker thread of job job_id has run to its end.
WorkerEnded(job_id) == threads[job_id].at = "ended"

\* C22: a job whose prediction could not be performed ends as failed with its
\* error recorded, and a job that ends as finished holds a result that is no
\* error and an output file path.
UnperformedJobsFail ==
  \A job_id \in DOMAIN jobs :
    WorkerEnded(job_id) =>
      /\ jobs[job_id].status = "failed" => "error" \in DOMAIN jobs[job_id]
      /\ jobs[job_id].status = "finished" =>
           /\ "error" \notin DOMAIN jobs[job_id].result
           /\ jobs[job_id].output_file # None

\* A job whose prediction raised ends as failed with its error recorded.
RaisedJobsFail ==
  \A job_id \in DOMAIN jobs :
    (WorkerEnded(job_id) /\ jobs[job_id].status = "failed") =>
      /\ "error" \in DOMAIN jobs[job_id]
      /\ jobs[job_id].error \in PREDICT_ERRORS

\* C27: a status poll that sees a job as finished sees its result and
\* output_file entries, and a download of a finished job is not answered
\* "Output not available" while the job has no output_file entry yet.
FinishedJobsAreComplete ==
  /\ (pc = "done" /\ op = "job-status" /\ ret.status = 200) =>
       (ret.job.status = "finished" =>
          {"result", "output_file"} \subseteq DOMAIN ret.job)
  /\ (pc = "done" /\ op = "download"
        /\ ret = HTTPException(404, "Output not available")) =>
       "output_file" \in DOMAIN jobs[args.job_id]

\* The headers of hs outside the detected mapping that pass the
\* substring-or-pattern test against a synonym of field f, in input order
Candidates(f, hs, mapping) ==
  Filter(hs, LAMBDA h : (\A g \in DOMAIN mapping : mapping[g] # h)
                         /\ is_suggested(f, h))

\* C23: a mapped field has no suggestion entry; an unmapped field has one
\* exactly when some header outside the mapping passes the substring-or-pattern
\* test against one of its synonyms, and the entry lists the first three such
\* headers at most, in input order.
SuggestionsAreFirstCandidates ==
  ColumnsValidated =>
    \A f \in Fields :
      LET candidates == Candidates(f, headers, validation.detected_mapping)
      IN  /\ f \in DOMAIN validation.detected_mapping =>
               f \notin DOMAIN validation.suggestions
          /\ (f \notin DOMAIN validation.detected_mapping /\ candidates = <<>>) =>
               f \notin DOMAIN validation.suggestions
          /\ (f \notin DOMAIN validation.detected_mapping /\ candidates # <<>>) =>
               /\ f \in DOMAIN validation.suggestions
               /\ Len(validation.suggestions[f]) = Min(3, Len(candidates))
               /\ validation.suggestions[f] =
                    SubSeq(candidates, 1, Len(validation.suggestions[f]))

\* A header row with four headers that could be the name, the first three of
\* which are suggested for it
FourCandidatesThreeSuggested ==
  /\ ColumnsValidated
  /\ headers = SHORT_HEADERS
  /\ "name" \notin DOMAIN validation.detected_mapping
  /\ Len(Candidates("name", headers, validation.detected_mapping)) = 4
  /\ validation.suggestions["name"] = << <<"i">>, <<"s">>, <<"t">> >>

\* The scores header h earns for field f on its own: every substring
\* similarity above 0.6, and 0.8 when a synonym matches by pattern
ScoresOf(f, h) ==
  {score_of(f, i, headers_lower_of(h)) :
     i \in {k \in 1..Len(COLUMN_MAPPINGS[f]) :
              /\ is_substring(f, k, headers_lower_of(h))
              /\ RatGT(score_of(f, k, headers_lower_of(h)), Rat(6, 10))}}
  \cup (IF \E i \in 1..Len(COLUMN_MAPPINGS[f]) : is_fuzzy(f, i, headers_lower_of(h))
          THEN {Rat(8, 10)} ELSE {})

\* No header of hs matches field f exactly.
NoExactHeader(f, hs) ==
  \A j \in 1..Len(hs) : ~is_exact(f, headers_lower_of(hs[j]))

\* C24: the confidence map has the keys of the mapping; a field without an
\* exactly matching header is mapped exactly when some header earns a score,
\* its confidence is the highest score any header earns, which lies strictly
\* between 0.6 and 1.0, and its header is the earliest one earning it.
ConfidenceIsBestScore ==
  ColumnsValidated =>
    /\ DOMAIN validation.confidence_scores = DOMAIN validation.detected_mapping
    /\ \A f \in Fields :
         NoExactHeader(f, headers) =>
           LET earning == {j \in 1..Len(headers) : ScoresOf(f, headers[j]) # {}}
           IN  /\ f \in DOMAIN validation.detected_mapping <=> earning # {}
               /\ f \in DOMAIN validation.detected_mapping =>
                    LET c == validation.confidence_scores[f]
                    IN  /\ RatGT(c, Rat(6, 10))
                        /\ RatLT(c, Rat(1, 1))
                        /\ \A j \in earning : \A s \in ScoresOf(f, headers[j]) :
                             RatLE(s, c)
                        /\ \E j \in earning :
                             /\ \E s \in ScoresOf(f, headers[j]) : RatEQ(s, c)
                             /\ validation.detected_mapping[f] = headers[j]
                             /\ \A k \in earning :
                                  k < j => \A s \in ScoresOf(f, headers[k]) :
                                             RatLT(s, c)

\* Two headers match planet_mass by pattern and the earlier one is kept, and
\* distance is mapped at a substring similarity of 7/8
TieKeepsEarlierHeader ==
  /\ ColumnsValidated
  /\ headers = TIED_HEADERS
  /\ validation.detected_mapping["planet_mass"] = H_star_mass
  /\ RatEQ(validation.confidence_scores["planet_mass"], Rat(8, 10))
  /\ RatEQ(validation.confidence_scores["distance"], Rat(7, 8))

\* C25: a scored target's characterization score is not below the score of
\* the same target placed at any greater distance.
CloserIsNotWorse ==
  (TargetScored /\ result.status = 200) =>
    \A d \in DISTANCES :
      RatGT(d, target.distance) =>
        RatGE(result.characterization_score,
              score_target(TRUE, [target EXCEPT !.distance = d]).characterization_score)

\* Among targets at 50 pc or closer, the closer one is not scored lower.
CloserIsNotWorseWithinFifty ==
  (TargetScored /\ result.status = 200) =>
    \A d \in DISTANCES :
      (RatGT(d, target.distance) /\ RatLE(d, RatInt(50))) =>
        RatGE(result.characterization_score,
              score_target(TRUE, [target EXCEPT !.distance = d]).characterization_score)

\* ---------------------------------------------------------------------
\* Inner working angle score.

IwaScored == pc = "done" /\ op = "iwa_check_score"

\* C26: the score is 0 for every separation below the inner working angle,
\* and it lies in [0, 1] and does not decrease as a separation at or above
\* the inner working angle grows.
IwaScoreFollowsWorkingAngle ==
  IwaScored =>
    /\ RatLT(args.separation_mas, args.inner_working_angle_mas) =>
         RatEQ(ret, RatInt(0))
    /\ RatGE(ret, RatInt(0)) /\ RatLE(ret, RatInt(1))
    /\ \A wider \in SEPARATIONS_MAS :
         (/\ RatGE(args.separation_mas, args.inner_working_angle_mas)
          /\ RatGE(wider, args.separation_mas)) =>
           RatGE(iwa_check_score(wider, args.inner_working_angle_mas), ret)

\* The score is 0 for every separation of at most half the inner working
\* angle, lies in [0, 1], and does not decrease as the separation grows.
IwaScoreFollowsHalfWorkingAngle ==
  IwaScored =>
    /\ RatLE(RatMul(RatInt(2), args.separation_mas), args.inner_working_angle_mas) =>
         RatEQ(ret, RatInt(0))
    /\ RatGE(ret, RatInt(0)) /\ RatLE(ret, RatInt(1))
    /\ \A wider \in SEPARATIONS_MAS :
         RatGE(wider, args.separation_mas) =>
           RatGE(iwa_check_score(wider, args.inner_working_angle_mas), ret)

\* A separation below the inner working angle has been given a positive score.
PositiveScoreBelowWorkingAngle ==
  /\ IwaScored
  /\ RatLT(args.separation_mas, args.inner_working_angle_mas)
  /\ RatGT(ret, RatInt(0))

\* ---------------------------------------------------------------------
\* Proceeding and the low-confidence override.

\* C28: a validated header list that may proceed has mapping_quality of at
\* least 6/11 and validation_status "valid": the low-confidence override
\* never applies to it.
CanProceedIsValid ==
  (ColumnsValidated /\ validation.can_proceed) =>
    /\ RatGE(validation.mapping_quality, Rat(6, 11))
    /\ validation.validation_status = "valid"

\* The example headers map the six required fields and may proceed.
ExampleHeadersProceed ==
  /\ ColumnsValidated
  /\ headers = EXAMPLE_HEADERS
  /\ validation.can_proceed
  /\ Len(validation.missing_required) = 0
  /\ RatLT(validation.mapping_quality, Rat(3, 4))

\* ---------------------------------------------------------------------
\* The heuristic defaults of a scoring result.

\* The result r of scoring the target t carries the defaults of the disabled
\* ML branch and the confidence of the target's completeness alone.
HeuristicDefaults(r, t) ==
  /\ RatEQ(r.habitability_score, RatInt(50))
  /\ r.habitability_class = "Unknown"
  /\ DOMAIN r.ml_predictions = {}
  /\ RatEQ(r.ai_confidence,
           IF t.data_quality # NoneStr THEN RatInt(92) ELSE RatInt(82))

\* C29: every scoring result, of /score and of each target of a batch, after
\* any sequence of scoring calls, has habitability_score 50.0,
\* habitability_class "Unknown", no ml_predictions, and ai_confidence 92.0
\* when data_quality is present and 82.0 when it is absent.
ResultsCarryHeuristicDefaults ==
  /\ (TargetScored /\ result.status = 200) => HeuristicDefaults(result, target)
  /\ (BatchScored /\ batch_result.status = 200) =>
       /\ Len(batch_result.results) = Len(batch)
       /\ \A k \in 1..Len(batch) :
            /\ batch_result.results[k].target_name = batch[k].name
            /\ HeuristicDefaults(batch_result.results[k], batch[k])

\* A batch with a target that has a data quality and one that has none has
\* been scored.
BatchWithAndWithoutQuality ==
  /\ BatchScored
  /\ batch_result.status = 200
  /\ \E j, k \in 1..Len(batch) :
       /\ batch[j].data_quality = NoneStr
       /\ RatEQ(batch_result.results[j].ai_confidence, RatInt(82))
       /\ batch[k].data_quality # NoneStr
       /\ RatEQ(batch_result.results[k].ai_confidence, RatInt(92))

\* ---------------------------------------------------------------------
\* The schedule of /prioritize.

TargetsPrioritized == pc = "done" /\ op = "prioritize"

\* The schedule has one entry for each target of the request, in descending
\* order of the product of the two scores.
ScheduleIsSortedByProduct ==
  TargetsPrioritized =>
    /\ ret.count = Len(args.targets)
    /\ Len(ret.schedule) = Len(args.targets)
    /\ \A k \in 1..Len(ret.schedule) : ret.schedule[k].priority = k
    /\ \A k \in 1..(Len(ret.schedule) - 1) :
         ret.schedule[k].observation_time <= ret.schedule[k + 1].observation_time

\* The targets of the request an entry of the schedule may have been made of
SourcesOf(entry) ==
  {t \in Range(args.targets) : planet_id_of(t) = entry.planet_id}

\* C30: every entry of the schedule reports, as observability_score and
\* habitability_score, the two values of its own target that were multiplied
\* into its sort product, under whichever keys the target supplies them.
ScheduleReportsUsedScores ==
  TargetsPrioritized =>
    \A k \in 1..Len(ret.schedule) :
      \E t \in SourcesOf(ret.schedule[k]) :
        /\ RatEQ(ret.schedule[k].observability_score, obs_of(t))
        /\ RatEQ(ret.schedule[k].habitability_score, hab_of(t))

\* Every entry whose target has non-zero scores under the keys
\* observability_score and habitability_score reports the values used.
ScheduleReportsPrimaryKeys ==
  TargetsPrioritized =>
    \A k \in 1..Len(ret.schedule) :
      \A t \in SourcesOf(ret.schedule[k]) :
        (truthy_number(t, "observability_score")
           /\ truthy_number(t, "habitability_score")) =>
          /\ RatEQ(ret.schedule[k].observability_score, obs_of(t))
          /\ RatEQ(ret.schedule[k].habitability_score, hab_of(t))

\* An entry reports the observability of another target of the request.
EntryReportsAnotherTarget ==
  /\ TargetsPrioritized
  /\ \E k \in 1..Len(ret.schedule) :
       \A t \in SourcesOf(ret.schedule[k]) :
         /\ "observability_score" \notin DOMAIN t
         /\ ~RatEQ(ret.schedule[k].observability_score, obs_of(t))
====
